---- MODULE Spec2Model ----
(***************************************************************************)
(* Candidate recommendation service: the embedding freshness guard         *)
(* (JobListingService / UserProfileService / EmbeddingService) and the     *)
(* applied-search result merger (SearchService.search_applied).            *)
(*                                                                         *)
(* The specifications share the variables:                                 *)
(*   Spec        one stored entity (a job or a candidate profile) and the  *)
(*               concurrent refresh_embedding / ensure_embedding calls on  *)
(*               it, split at their await points;                          *)
(*   SpecSolo    the same steps with a single caller (calls in sequence);  *)
(*   SpecStored  a single caller on a job stored with any combination of   *)
(*               vector, generated_at and updatedAt;                       *)
(*   SpecRetry   EmbeddingService's retry loop against every sequence of   *)
(*               provider answers;                                         *)
(*   SpecSearch  search_applied from the point where the query vector is   *)
(*               resolved: fetch applications, score, merge, sort, page;   *)
(*   SpecStatus  search_applied on one applicant, over the experience      *)
(*               entries of the profile;                                   *)
(*   SpecRank    the two ranking routines on their own, over id lists and  *)
(*               profile collections with duplicates and invalid ids;      *)
(*   SpecGlobal  search_global from the point where the query vector is    *)
(*               resolved, over the counts a request can carry;            *)
(*   SpecScore   manual scoring over vectors and query vectors, in         *)
(*               rounded floating-point arithmetic;                        *)
(*   SpecUpdate  update_profile with well-formed and malformed ids;        *)
(*   SpecText    _build_job_text over job documents with every optional    *)
(*               field missing, empty or given;                            *)
(*   SpecClient  _get_azure_client on concurrent worker threads;           *)
(*   SpecRequest search_applied as a whole: the freshness guard, then the  *)
(*               fetch, scoring and merge;                                 *)
(*   SpecProject the hit each ranking routine builds from one candidate    *)
(*               document.                                                 *)
(*                                                                         *)
(* Python None is the empty sequence, a present value v is <<v>>.          *)
(* An embedding vector of the freshness guard is its length, the           *)
(* generation that produced it and the content it was generated from; the  *)
(* numeric vectors that are scored live in the search part.                *)
(***************************************************************************)
EXTENDS Integers, Sequences, FiniteSets, TLC

\* ------------------------------------------------------------------ bounds
MaxTime == 2
MaxCalls == 2
MaxEdits == 1
MaxApps == 2
MaxProfiles == 2
MaxIds == 2
MaxDocs == 3
MaxScored == 2
MaxExperience == 2
MaxAsked == 2

\* ------------------------------------------------------- program constants
EMBEDDING_VECTOR_SIZE == 3072
max_retries == 3
retry_delay_seconds == 2
DEFAULT_GLOBAL_LIMIT == 50
MAX_GLOBAL_LIMIT == 200

None == <<>>
Some(v) == <<v>>
Get(o) == o[1]

\* A string bson.ObjectId rejects, and ObjectId(cid) succeeding.
InvalidId == "not-an-object-id"
ValidObjectId(cid) == cid # InvalidId

\* The job ids of search requests: the stored job's and a malformed one.
JobIds == {"j1", InvalidId}

\* Candidate ids update_profile is called with: the id of the stored
\* profile (of no document while there is none) and a malformed one.
StoredCandidateId == "cand1"
CandidateRequestIds == {StoredCandidateId, InvalidId}

Procs == {"c1", "c2"}

\* Worker threads of asyncio.to_thread running _sync_generate_embedding.
Threads == {"t1", "t2", "t3"}
Solo == {"c1"}

AZURE_OPENAI_EMBEDDING_DEPLOYMENT == "deployment"

\* Fields of a CandidateUpdate payload; the first two are embedding
\* sensitive, the last one is not.
UpdateFields == {"skills", "experience", "is_draft"}

EMBEDDING_SENSITIVE_FIELDS ==
    {"skills", "experience", "education", "courses", "personal_projects",
     "awards_and_achievements", "position_of_responsibility", "competitions",
     "extra_curricular_activities", "publications", "personal_information",
     "summary", "about", "industry", "socials"}

\* Lengths of a list the provider returns that is not EMBEDDING_VECTOR_SIZE long.
BadLengths == {0, 1536}

VARIABLES
    kind,        \* "job" or "candidate": which service owns the entity
    collection,  \* the entity's collection: <<>> or <<document>>
    now,         \* datetime.utcnow()
    ngen,        \* generations made so far (names each EmbeddingResult)
    ncalls,      \* calls started so far
    pc,          \* each caller's position
    op,          \* each caller's entry point: "ensure" or "refresh"
    job,         \* ensure_embedding's job argument
    text,        \* the content the embedding text is built from
    failures,    \* provider answers of the current call that were no valid vector
    result,      \* EmbeddingResult, or the exception raised
    outcome,     \* what the call gave its caller
    calls,       \* provider invocations of the current call
    writes,      \* store writes of the current call
    start,       \* utcnow() when the call started
    job_id,      \* the job id of the search request that called ensure_embedding
    seen,        \* embedding status the call found
    updated      \* what the last update_profile call gave its caller

lifeVars == <<job_id, kind, collection, now, ngen, ncalls, pc, op, job, text, failures,
              result, outcome, calls, writes, start, seen, updated>>

\* The search side: the two collections search_applied reads, the query vector
\* the freshness guard handed it, and what one request computed.
VARIABLES
    applications,   \* the applications collection, in the store's order
    userprofiles,   \* the userprofiles collection, in the store's order
    jd_embedding,   \* the job's query vector
    request,        \* None, or Some([page, count]) of the request served
    ranked_hits,    \* what _fetch_and_rank_profiles_manually returned
    results,        \* search_applied's local list after the sort
    response,       \* None, or Some(NewAppliedSearchResponse)
    candidate_ids,  \* the ids handed to the ranking routine
    raised          \* None, or Some(exception the request ended with)

searchVars == <<applications, userprofiles, jd_embedding, request, ranked_hits,
                results, response, candidate_ids, raised>>

\* The routines checked on their own, each under a specification that draws
\* its input in Init: the retry loop (the provider's answers to successive
\* calls, and what one run of the loop came to) and the text synthesis (a
\* job document, and the text built from it).
VARIABLES
    replies,     \* the provider's answer to the 1st, 2nd, ... call
    loop,        \* None, or Some(the outcome of generate_job_embedding)
    source_doc,  \* None, or Some(the document given to _build_job_text)
    built_text   \* None, or Some(the text it returned)

\* The process-shared provider handle and the worker threads asking for it.
VARIABLES
    _azure_client,  \* the module global: None, or Some(a client instance)
    where,          \* where each thread stands in _get_azure_client
    client,         \* the client each thread's last call returned
    constructed,    \* how many AzureOpenAI(...) instances were constructed
    asked           \* how many calls each thread has made

clientVars == <<_azure_client, where, client, constructed, asked>>

\* The profile projection of a hit, built from one candidate document by each
\* ranking strategy.
VARIABLES
    profile_doc,  \* None, or Some(the userprofiles document)
    vector_hit,   \* None, or Some(the hit _rank_candidates_via_vector_search built)
    manual_hit    \* None, or Some(the hit _fetch_and_rank_profiles_manually built)

projectVars == <<profile_doc, vector_hit, manual_hit>>

pureVars == <<replies, loop, source_doc, built_text, clientVars, projectVars>>

vars == <<lifeVars, searchVars, pureVars>>

Doc == collection[1]

\* ------------------------------------------------------------- documents
\* create_profile's payload.update(...)
NewProfile(t) ==
    [status |-> "pending", vector |-> None, model |-> None,
     dimensions |-> Some(EMBEDDING_VECTOR_SIZE), generated_at |-> None,
     error |-> None, updatedAt |-> Some(t), content |-> 0,
     model_of |-> None, generated_of |-> None]

\* A job document as the job collection holds it before any call of this
\* run: never embedded; embedded by an earlier _persist_embedding and then
\* possibly edited (updatedAt moved on); or left in error by an earlier
\* failed refresh, with the fields of a still earlier generation untouched.
Times0 == {0, 1}

JobNeverEmbedded ==
    { [status |-> "pending", vector |-> None, model |-> None,
       dimensions |-> None, generated_at |-> None, error |-> None,
       updatedAt |-> u, content |-> 0, model_of |-> None, generated_of |-> None]
      : u \in {Some(1)} }

JobEmbedded ==
    { [status |-> "ready",
       vector |-> Some([len |-> EMBEDDING_VECTOR_SIZE, id |-> 0, of |-> 0]),
       model |-> Some(AZURE_OPENAI_EMBEDDING_DEPLOYMENT),
       dimensions |-> Some(EMBEDDING_VECTOR_SIZE), generated_at |-> Some(g),
       error |-> None, updatedAt |-> u, content |-> 0,
       model_of |-> Some(0), generated_of |-> Some(0)]
      : g \in Times0, u \in {None} \cup {Some(t) : t \in Times0} }

JobFailedBefore ==
    { [d EXCEPT !.status = "error",
                !.error = Some("Azure OpenAI embedding request failed")]
      : d \in {e \in JobNeverEmbedded \cup JobEmbedded :
                  \/ e.vector = None
                  \/ e.updatedAt # None /\ Get(e.updatedAt) > Get(e.generated_at)} }

JobDocs == JobNeverEmbedded \cup JobEmbedded \cup JobFailedBefore

Idle == [p \in Procs |-> "idle"]

\* No routine is run on its own.
NoRetryLoop ==
    /\ replies = <<>>
    /\ loop = None

NoText ==
    /\ source_doc = None
    /\ built_text = None

\* The process has just started: no client, no thread in _get_azure_client.
NoClient ==
    /\ _azure_client = None
    /\ where = [t \in Threads |-> "out"]
    /\ client = [t \in Threads |-> None]
    /\ constructed = 0
    /\ asked = [t \in Threads |-> 0]

\* No hit is built on its own.
NoProjection ==
    /\ profile_doc = None
    /\ vector_hit = None
    /\ manual_hit = None

NoPure ==
    /\ NoRetryLoop
    /\ NoText
    /\ NoClient
    /\ NoProjection

\* No request has been made: every caller is idle.
LifeIdle ==
    /\ now = 1
    /\ job_id = [p \in Procs |-> None]
    /\ ngen = 0
    /\ ncalls = 0
    /\ pc = Idle
    /\ op = [p \in Procs |-> "none"]
    /\ job = [p \in Procs |-> None]
    /\ text = [p \in Procs |-> None]
    /\ failures = [p \in Procs |-> 0]
    /\ result = [p \in Procs |-> None]
    /\ outcome = [p \in Procs |-> None]
    /\ calls = [p \in Procs |-> 0]
    /\ writes = [p \in Procs |-> 0]
    /\ start = [p \in Procs |-> 0]
    /\ seen = [p \in Procs |-> "none"]
    /\ updated = None

\* The search side left out: empty collections, no request.
NoSearch ==
    /\ applications = <<>>
    /\ userprofiles = <<>>
    /\ jd_embedding = <<>>
    /\ request = None
    /\ ranked_hits = <<>>
    /\ results = <<>>
    /\ response = None
    /\ candidate_ids = <<>>
    /\ raised = None

Init ==
    /\ kind \in {"job", "candidate"}
    /\ collection \in IF kind = "job"
                      THEN {<<d>> : d \in JobDocs} \cup {<<>>}
                      ELSE {<<>>}
    /\ LifeIdle
    /\ NoPure
    /\ NoSearch

\* A call that has returned is looked at before anything else happens: no
\* other step is taken while a caller holds a result it has not yet dropped.
NoneDone == \A q \in Procs : pc[q] # "done"

\* ------------------------------------------------------------- the clock
Tick ==
    /\ NoneDone
    /\ now < MaxTime
    /\ now' = now + 1
    /\ UNCHANGED <<pureVars, searchVars, job_id, kind, collection, ngen, ncalls, pc, op, job, text, failures,
                   result, outcome, calls, writes, start, seen, updated>>

\* ------------------------------------------------------ pure functions
\* Python truthiness of a stored vector: not None and not the empty list.
Truthy(v) == v # None /\ Get(v).len > 0

\* The test with > for >=: an embedding stamped in the same instant as the
\* job's last update counts as stale.
CacheUsable_Strict(j) ==
    /\ Truthy(j.vector)
    /\ j.generated_at # None
    /\ (j.updatedAt = None \/ Get(j.generated_at) > Get(j.updatedAt))

\* ensure_embedding's test "embedding exists and is up-to-date".
CacheUsable(j) ==
    /\ Truthy(j.vector)
    /\ j.generated_at # None
    /\ (j.updatedAt = None \/ Get(j.generated_at) >= Get(j.updatedAt))

\* _validate_vector rejecting only a vector that is too long.
ValidateVector_AtMost(v) == v.len <= EMBEDDING_VECTOR_SIZE

\* _validate_vector left out.
ValidateVector_Skip(v) == TRUE

\* _validate_vector: TRUE when it raises nothing.
ValidateVector(v) == v.len = EMBEDDING_VECTOR_SIZE

\* What one client.embeddings.create call can do: raise OpenAIError, answer
\* with something that is not a list, or answer with a list of some length.
OpenAIError == [kind |-> "OpenAIError", embedding |-> None]
NotAList == [kind |-> "not_a_list", embedding |-> None]
List(n) == [kind |-> "list", embedding |-> Some(n)]

\* The provider behaviours a call is run against: the answers of up to
\* max_retries consecutive client.embeddings.create calls.  One script per
\* path of the retry loop: a good vector at once, a good vector after one
\* transient error, every attempt failing, a non-list answer, and a vector
\* of each wrong length.
Scripts ==
    {<<List(EMBEDDING_VECTOR_SIZE), OpenAIError, OpenAIError>>,
     <<OpenAIError, List(EMBEDDING_VECTOR_SIZE), OpenAIError>>,
     <<OpenAIError, OpenAIError, OpenAIError>>,
     <<NotAList, OpenAIError, OpenAIError>>}
    \cup {<<List(n), OpenAIError, OpenAIError>> : n \in BadLengths}

\* The loop stopping only when attempt exceeds max_retries.
RECURSIVE RetryOnceMore(_, _, _, _)
RetryOnceMore(answers, k, failed, slept) ==
    LET answer == answers[k]
    IN  IF answer.kind = "OpenAIError"
        THEN IF failed + 1 > max_retries
             THEN [calls |-> k, attempt |-> failed + 1, slept |-> slept,
                   vector |-> None, exc |-> Some("EmbeddingServiceError"),
                   msg |-> Some("Azure OpenAI embedding request failed")]
             ELSE RetryOnceMore(answers, k + 1, failed + 1,
                                Append(slept, retry_delay_seconds * (failed + 1)))
        ELSE IF answer.kind = "not_a_list"
        THEN [calls |-> k, attempt |-> failed, slept |-> slept, vector |-> None,
              exc |-> Some("EmbeddingServiceError"),
              msg |-> Some("Embedding vector missing or invalid.")]
        ELSE [calls |-> k, attempt |-> failed, slept |-> slept,
              vector |-> answer.embedding, exc |-> None, msg |-> None]

\* _sync_generate_embedding's while loop, entered for the k-th provider call
\* with `failed` attempts behind it (the loop's attempt counter) and the
\* sleeps made so far.
RECURSIVE _sync_generate_embedding(_, _, _, _)
_sync_generate_embedding(answers, k, failed, slept) ==
    LET answer == answers[k]
    IN  IF answer.kind = "OpenAIError"
        THEN IF failed + 1 >= max_retries
             THEN [calls |-> k, attempt |-> failed + 1, slept |-> slept,
                   vector |-> None, exc |-> Some("EmbeddingServiceError"),
                   msg |-> Some("Azure OpenAI embedding request failed")]
             ELSE _sync_generate_embedding(answers, k + 1, failed + 1,
                                           Append(slept, retry_delay_seconds * (failed + 1)))
        ELSE IF answer.kind = "not_a_list"
        THEN [calls |-> k, attempt |-> failed, slept |-> slept, vector |-> None,
              exc |-> Some("EmbeddingServiceError"),
              msg |-> Some("Embedding vector missing or invalid.")]
        ELSE [calls |-> k, attempt |-> failed, slept |-> slept,
              vector |-> answer.embedding, exc |-> None, msg |-> None]

\* How many of the first n answers of a script are not a vector of the
\* configured size.
RECURSIVE Failures(_, _)
Failures(script, n) ==
    IF n = 0 THEN 0
    ELSE Failures(script, n - 1)
         + (IF script[n] = List(EMBEDDING_VECTOR_SIZE) THEN 0 ELSE 1)

\* EmbeddingResult(vector, model, generated_at=datetime.utcnow())
EmbeddingResult(v, t) ==
    [kind |-> "result", vector |-> Some(v),
     model |-> Some(AZURE_OPENAI_EMBEDDING_DEPLOYMENT),
     generated_at |-> Some(t), id |-> Some(v.id), exc |-> None, msg |-> None]

Raised(type, msg) ==
    [kind |-> "exception", vector |-> None, model |-> None,
     generated_at |-> None, id |-> None, exc |-> Some(type), msg |-> Some(msg)]

\* The "processing" update rewriting the job's content as well.
ProcessingFields_TouchContent(d) ==
    [d EXCEPT !.status = "processing", !.error = None, !.content = @ + 1]

\* The $set of the "processing" update.
ProcessingFields(d) == [d EXCEPT !.status = "processing", !.error = None]

\* The except branch also drops the stored vector.
ErrorFields_ClearVector(d, e) ==
    [d EXCEPT !.status = "error", !.error = e.msg, !.vector = None]

\* The except branch records the message and forgets the status.
ErrorFields_KeepStatus(d, e) == [d EXCEPT !.error = e.msg]

\* The $set of the two except branches: str(exc), or "Unexpected error: " + str(exc).
ErrorFields(d, e) ==
    [d EXCEPT !.status = "error",
              !.error = IF Get(e.exc) = "EmbeddingServiceError"
                        THEN e.msg
                        ELSE Some(<<"Unexpected error: ", Get(e.msg)>>)]

\* _persist_embedding without the generated_at field.
PersistEmbedding_NoTimestamp(d, r) ==
    [d EXCEPT !.vector = r.vector, !.model = r.model,
              !.dimensions = Some(EMBEDDING_VECTOR_SIZE),
              !.status = "ready", !.error = None, !.model_of = r.id]

\* _persist_embedding without the model field.
PersistEmbedding_NoModel(d, r) ==
    [d EXCEPT !.vector = r.vector,
              !.dimensions = Some(EMBEDDING_VECTOR_SIZE),
              !.status = "ready", !.generated_at = r.generated_at,
              !.error = None, !.generated_of = r.id]

\* _persist_embedding's $set.
PersistEmbedding(d, r) ==
    [d EXCEPT !.vector = r.vector,
              !.model = r.model,
              !.dimensions = Some(EMBEDDING_VECTOR_SIZE),
              !.status = "ready",
              !.generated_at = r.generated_at,
              !.error = None,
              !.model_of = r.id,
              !.generated_of = r.id]

_touches_embedding_fields(updates) ==
    \E field \in updates : field \in EMBEDDING_SENSITIVE_FIELDS

\* update_profile resetting the embedding to "pending" instead of "stale".
UpdateFieldsOf_Pending(d, updates, t) ==
    IF _touches_embedding_fields(updates)
    THEN [d EXCEPT !.updatedAt = Some(t), !.content = @ + 1,
                   !.status = "pending", !.vector = None, !.error = None,
                   !.generated_at = None, !.generated_of = None]
    ELSE [d EXCEPT !.updatedAt = Some(t)]

\* update_profile's $set: updatedAt always, the stale marking when an
\* embedding-sensitive field is among the updates.
UpdateFieldsOf(d, updates, t) ==
    IF _touches_embedding_fields(updates)
    THEN [d EXCEPT !.updatedAt = Some(t), !.content = @ + 1,
                   !.status = "stale", !.vector = None, !.error = None,
                   !.generated_at = None, !.generated_of = None]
    ELSE [d EXCEPT !.updatedAt = Some(t)]

Returned(v) == Some([type |-> "return", value |-> v, exc |-> None])
Raise(type) == Some([type |-> "raise", value |-> None, exc |-> Some(type)])

\* ------------------------------------------------------------ the calls
\* search_*: _get_job_or_404, then ensure_embedding up to its first await.
EnsureStart(p, id) ==
    /\ NoneDone
    /\ kind = "job"
    /\ pc[p] = "idle"
    /\ ncalls < MaxCalls
    /\ ncalls' = ncalls + 1
    /\ op' = [op EXCEPT ![p] = "ensure"]
    /\ job_id' = [job_id EXCEPT ![p] = Some(id)]
    /\ start' = [start EXCEPT ![p] = now]
    /\ IF ~ValidObjectId(id) \/ collection = <<>>
       THEN /\ pc' = [pc EXCEPT ![p] = "done"]
            /\ outcome' = [outcome EXCEPT ![p] = Raise("NotFoundError")]
            /\ job' = job
       ELSE /\ job' = [job EXCEPT ![p] = Some(Doc)]
            /\ IF CacheUsable(Doc)
               THEN /\ pc' = [pc EXCEPT ![p] = "done"]
                    /\ outcome' = [outcome EXCEPT ![p] = Returned(Doc.vector)]
               ELSE /\ pc' = [pc EXCEPT ![p] = "refresh"]
                    /\ outcome' = outcome
    /\ UNCHANGED <<pureVars, searchVars, kind, collection, now, ngen, text, failures, result, calls,
                   writes, seen, updated>>

\* ensure_embedding: await self.refresh_embedding(job_id), its get_job.
EnsureRefresh(p) ==
    /\ NoneDone
    /\ pc[p] = "refresh"
    /\ IF collection = <<>>
       THEN /\ pc' = [pc EXCEPT ![p] = "done"]
            /\ outcome' = [outcome EXCEPT ![p] = Raise("NotFoundError")]
            /\ text' = text
       ELSE /\ pc' = [pc EXCEPT ![p] = "set_processing"]
            /\ text' = [text EXCEPT ![p] = Some(Doc.content)]
            /\ outcome' = outcome
    /\ UNCHANGED <<pureVars, searchVars, job_id, kind, collection, now, ngen, ncalls, op, job, failures,
                   result, calls, writes, start, seen, updated>>

\* refresh_embedding called directly (the backfill drivers): the document read.
RefreshStart(p) ==
    /\ NoneDone
    /\ pc[p] = "idle"
    /\ ncalls < MaxCalls
    /\ ncalls' = ncalls + 1
    /\ op' = [op EXCEPT ![p] = "refresh"]
    /\ IF collection = <<>>
       THEN /\ pc' = [pc EXCEPT ![p] = "done"]
            /\ outcome' = [outcome EXCEPT ![p] = Raise("NotFoundError")]
            /\ UNCHANGED <<text, seen>>
       ELSE /\ pc' = [pc EXCEPT ![p] = "set_processing"]
            /\ text' = [text EXCEPT ![p] = Some(Doc.content)]
            /\ seen' = [seen EXCEPT ![p] = Doc.status]
            /\ outcome' = outcome
    /\ UNCHANGED <<pureVars, searchVars, job_id, kind, collection, now, ngen, job, failures, result, calls,
                   writes, start, updated>>

\* refresh_embedding: the update to status "processing".
SetProcessing(p) ==
    /\ NoneDone
    /\ pc[p] = "set_processing"
    /\ collection' = <<ProcessingFields(Doc)>>
    /\ writes' = [writes EXCEPT ![p] = @ + 1]
    /\ pc' = [pc EXCEPT ![p] = "generate"]
    /\ UNCHANGED <<pureVars, searchVars, job_id, kind, now, ngen, ncalls, op, job, text, failures, result,
                   outcome, calls, start, seen, updated>>

\* generate_job_embedding / generate_candidate_embedding: the provider call
\* on a worker thread (the whole retry loop), _validate_vector, and the
\* result stamped with utcnow().  The loop touches no shared state, so it is
\* one step; script[k] is what the k-th client.embeddings.create does.
Generate(p, script) ==
    /\ NoneDone
    /\ pc[p] = "generate"
    /\ LET r == _sync_generate_embedding(script, 1, 0, <<>>)
       IN  /\ calls' = [calls EXCEPT ![p] = r.calls]
           /\ failures' = [failures EXCEPT ![p] = Failures(script, r.calls)]
           /\ IF r.exc # None
              THEN /\ result' = [result EXCEPT ![p] =
                           Some(Raised(Get(r.exc), Get(r.msg)))]
                   /\ pc' = [pc EXCEPT ![p] = "failed"]
                   /\ ngen' = ngen
              ELSE LET v == [len |-> Get(r.vector), id |-> ngen + 1,
                            of |-> Get(text[p])]
                   IN  IF ValidateVector(v)
                       THEN /\ result' = [result EXCEPT ![p] =
                                    Some(EmbeddingResult(v, now))]
                            /\ pc' = [pc EXCEPT ![p] = "persist"]
                            /\ ngen' = ngen + 1
                       ELSE /\ result' = [result EXCEPT ![p] =
                                    Some(Raised("ValueError",
                                                "Expected embedding length"))]
                            /\ pc' = [pc EXCEPT ![p] = "failed"]
                            /\ ngen' = ngen
    /\ UNCHANGED <<pureVars, searchVars, job_id, kind, collection, now, ncalls, op, job, text, outcome,
                   writes, start, seen, updated>>

\* refresh_embedding, else branch: _persist_embedding.
Persist(p) ==
    /\ NoneDone
    /\ pc[p] = "persist"
    /\ collection' = <<PersistEmbedding(Doc, Get(result[p]))>>
    /\ writes' = [writes EXCEPT ![p] = @ + 1]
    /\ IF op[p] = "ensure"
       THEN /\ pc' = [pc EXCEPT ![p] = "reread"]
            /\ outcome' = outcome
       ELSE /\ pc' = [pc EXCEPT ![p] = "done"]
            /\ outcome' = [outcome EXCEPT ![p] = Returned(None)]
    /\ result' = [result EXCEPT ![p] = None]
    /\ UNCHANGED <<pureVars, searchVars, job_id, kind, now, ngen, ncalls, op, job, text, failures, calls,
                   start, seen, updated>>

\* refresh_embedding, except branches: the "error" update, then raise.
Fail(p) ==
    /\ NoneDone
    /\ pc[p] = "failed"
    /\ collection' = <<ErrorFields(Doc, Get(result[p]))>>
    /\ writes' = [writes EXCEPT ![p] = @ + 1]
    /\ pc' = [pc EXCEPT ![p] = "done"]
    /\ outcome' = [outcome EXCEPT ![p] = Raise(Get(Get(result[p]).exc))]
    /\ result' = [result EXCEPT ![p] = None]
    /\ UNCHANGED <<pureVars, searchVars, job_id, kind, now, ngen, ncalls, op, job, text, failures, calls,
                   start, seen, updated>>

\* ensure_embedding: the second get_job and the vector it returns.
Reread(p) ==
    /\ NoneDone
    /\ pc[p] = "reread"
    /\ pc' = [pc EXCEPT ![p] = "done"]
    /\ outcome' = [outcome EXCEPT ![p] =
            IF Truthy(Doc.vector) THEN Returned(Doc.vector)
            ELSE Raise("EmbeddingServiceError")]
    /\ UNCHANGED <<pureVars, searchVars, job_id, kind, collection, now, ngen, ncalls, op, job, text, failures,
                   result, calls, writes, start, seen, updated>>

\* The caller has the result; the call's locals are gone.
Finish(p) ==
    /\ pc[p] = "done"
    /\ pc' = [pc EXCEPT ![p] = "idle"]
    /\ op' = [op EXCEPT ![p] = "none"]
    /\ job' = [job EXCEPT ![p] = None]
    /\ job_id' = [job_id EXCEPT ![p] = None]
    /\ text' = [text EXCEPT ![p] = None]
    /\ failures' = [failures EXCEPT ![p] = 0]
    /\ result' = [result EXCEPT ![p] = None]
    /\ outcome' = [outcome EXCEPT ![p] = None]
    /\ calls' = [calls EXCEPT ![p] = 0]
    /\ writes' = [writes EXCEPT ![p] = 0]
    /\ start' = [start EXCEPT ![p] = 0]
    /\ seen' = [seen EXCEPT ![p] = "none"]
    /\ UNCHANGED <<pureVars, searchVars, kind, collection, now, ngen, ncalls, updated>>

\* ------------------------------------------------- candidate profile CRUD
CreateProfile ==
    /\ NoneDone
    /\ kind = "candidate"
    /\ collection = <<>>
    /\ collection' = <<NewProfile(now)>>
    /\ UNCHANGED <<pureVars, searchVars, job_id, kind, now, ngen, ncalls, pc, op, job, text, failures, result,
                   outcome, calls, writes, start, seen, updated>>

UpdateProfile(candidate_id, updates) ==
    /\ NoneDone
    /\ kind = "candidate"
    /\ IF ~ValidObjectId(candidate_id)
       THEN /\ updated' = Some("InvalidId")
            /\ collection' = collection
       ELSE IF collection = <<>>
       THEN /\ updated' = Some("NotFoundError")
            /\ collection' = collection
       ELSE /\ _touches_embedding_fields(updates) => Doc.content < MaxEdits
            /\ updated' = Some("ok")
            /\ collection' = <<UpdateFieldsOf(Doc, updates, now)>>
    /\ UNCHANGED <<pureVars, searchVars, job_id, kind, now, ngen, ncalls, pc, op, job, text, failures, result,
                   outcome, calls, writes, start, seen>>

\* ------------------------------------------------------- specifications
\* The route's except clauses mapping every exception but NotFoundError to 404.
HttpStatus_NotFoundForAll(o) == IF Get(o).type = "return" THEN 200 ELSE 404

\* The status code the route answers with for what the service gave it.
HttpStatus(o) ==
    IF Get(o).type = "return" THEN 200
    ELSE IF Get(o).exc = Some("NotFoundError") THEN 404
    ELSE 500

CallStep(p) ==
    \/ \E id \in JobIds : EnsureStart(p, id)
    \/ EnsureRefresh(p)
    \/ RefreshStart(p)
    \/ SetProcessing(p)
    \/ \E script \in Scripts : Generate(p, script)
    \/ Persist(p)
    \/ Fail(p)
    \/ Reread(p)
    \/ Finish(p)

Env ==
    \/ Tick
    \/ CreateProfile
    \/ \E updates \in (SUBSET UpdateFields) \ {{}} :
           UpdateProfile(StoredCandidateId, updates)

Next == (\E p \in Procs : CallStep(p)) \/ Env

NextSolo == (\E p \in Solo : CallStep(p)) \/ Env

Spec == Init /\ [][Next]_vars

SpecSolo == Init /\ [][NextSolo]_vars

\* A single caller, and update_profile called with any id, the malformed
\* one included.
NextUpdate ==
    \/ \E p \in Solo : CallStep(p)
    \/ Tick
    \/ CreateProfile
    \/ \E candidate_id \in CandidateRequestIds,
          updates \in (SUBSET UpdateFields) \ {{}} :
           UpdateProfile(candidate_id, updates)

SpecUpdate == Init /\ [][NextUpdate]_vars

\* ------------------------------------------------- stored job documents
\* Every combination of job_embedding_vector (missing, empty, full),
\* job_embedding_last_generated_at and updatedAt (missing or a time) a job
\* document can be stored with; the jobs collection is written by the
\* application that owns the job postings as well.
StoredVectors ==
    {None, Some([len |-> 0, id |-> 0, of |-> 0]),
     Some([len |-> EMBEDDING_VECTOR_SIZE, id |-> 0, of |-> 0])}

StoredTimes == {None} \cup {Some(t) : t \in Times0}

StoredJobs ==
    { [status |-> IF Truthy(v) /\ g # None THEN "ready" ELSE "pending",
       vector |-> v,
       model |-> IF g # None THEN Some(AZURE_OPENAI_EMBEDDING_DEPLOYMENT) ELSE None,
       dimensions |-> IF g # None THEN Some(EMBEDDING_VECTOR_SIZE) ELSE None,
       generated_at |-> g, error |-> None, updatedAt |-> u, content |-> 0,
       model_of |-> IF g # None THEN Some(0) ELSE None,
       generated_of |-> IF g # None THEN Some(0) ELSE None]
      : v \in StoredVectors, g \in StoredTimes, u \in StoredTimes }

InitStored ==
    /\ kind \in {"job", "candidate"}
    /\ collection \in IF kind = "job"
                      THEN {<<d>> : d \in StoredJobs}
                      ELSE {<<>>}
    /\ LifeIdle
    /\ NoPure
    /\ NoSearch

\* _ensure_job_embedding: the metadata returned with the vector once
\* ensure_embedding(job_doc) has returned, computed from the job_doc the
\* request read at its start.
Metadata(job_doc) ==
    [cache_hit |-> /\ job_doc.generated_at # None
                   /\ \/ job_doc.updatedAt = None
                      \/ Get(job_doc.generated_at) >= Get(job_doc.updatedAt),
     model |-> job_doc.model]

SpecStored == InitStored /\ [][NextSolo]_vars

\* ================================================================ search
\* search_applied, from the fetch of the applications to the response.  The
\* program only reads the applications collection, so one request sees one
\* content of it.  Vectors are short vectors of whole numbers standing for
\* the EMBEDDING_VECTOR_SIZE floats.  A float is a whole number of ticks,
\* Unit ticks standing for 1.0, and every operation on floats rounds its
\* exact result to the nearest float of Precision = 2^p (p mantissa bits;
\* the build's floats have p = 53), ties to the even mantissa.
Unit == 2 ^ 9
Precision == 2 ^ 7

UserIds == {"u1", "u2"}
Statuses == {"Applied", "Rejected"}

\* embedding_vector of a profile: missing (scored 0.0), at cosine -0.6 and at
\* cosine 0.8 with the query <<5, 0>>.  Orthogonal and all-zero vectors and
\* the all-zero query are scored under SpecScore.
Vectors == {None, Some(<<-3, 4>>), Some(<<4, 3>>)}
QueryVectors == {<<5, 0>>}
Pages == {1, 2}
Counts == {1, 2}

ApplicationIds == <<"a1", "a2", "a3", "a4">>
ProfileIds == <<"p1", "p2", "p3", "p4">>

ApplicationKinds ==
    [candidateId : {None} \cup {Some(u) : u \in UserIds},
     currentStatus : Statuses]
ProfileKinds == [user : UserIds, embedding_vector : Vectors]

\* The contents of the two collections: up to MaxApps applications of the
\* job and up to MaxProfiles profiles, each with an _id of its own.
ApplicationCollections ==
    UNION {{[i \in 1..n |-> [_id |-> ApplicationIds[i],
                             candidateId |-> f[i].candidateId,
                             currentStatus |-> f[i].currentStatus]] :
               f \in [1..n -> ApplicationKinds]} : n \in 0..MaxApps}
ProfileCollections ==
    UNION {{[i \in 1..n |-> [_id |-> ProfileIds[i],
                             user |-> f[i].user,
                             embedding_vector |-> f[i].embedding_vector,
                             experience |-> <<>>]] :
               f \in [1..n -> ProfileKinds]} : n \in 0..MaxProfiles}

InitSearch ==
    /\ kind = "job"
    /\ collection = <<>>
    /\ LifeIdle
    /\ NoPure
    /\ applications \in ApplicationCollections
    /\ userprofiles \in ProfileCollections
    /\ jd_embedding \in QueryVectors
    /\ request = None
    /\ ranked_hits = <<>>
    /\ results = <<>>
    /\ response = None
    /\ candidate_ids = <<>>
    /\ raised = None

\* _fetch_applications with page_size = 0: the count and the documents of
\* the query {jobId, currentStatus: "Applied"}.
_fetch_applications ==
    LET docs == SelectSeq(applications, LAMBDA a : a.currentStatus = "Applied")
    IN  [docs |-> docs, total |-> Len(docs)]

\* str(app.get("candidateId")).
Str(o) == IF o = None THEN "None" ELSE Get(o)

\* candidate_ids: the ids of the applications that have one.
CandidateIds(docs) ==
    LET with == SelectSeq(docs, LAMBDA a : a.candidateId # None)
    IN  [i \in 1..Len(with) |-> Str(with[i].candidateId)]

RECURSIVE Dot(_, _)
Dot(a, b) == IF a = <<>> THEN 0 ELSE a[1] * b[1] + Dot(Tail(a), Tail(b))

\* The largest power of two that is at most q, for q >= 1.
RECURSIVE Pow2Below(_)
Pow2Below(q) == IF q < 2 THEN 1 ELSE 2 * Pow2Below(q \div 2)

\* The floor of the square root.
RECURSIVE ISqrt(_)
ISqrt(x) ==
    IF x < 2 THEN x
    ELSE LET s == 2 * ISqrt(x \div 4)
         IN  IF (s + 1) * (s + 1) <= x THEN s + 1 ELSE s

\* The distance in ticks between the floats around a value of q ticks.
Ulp(q) ==
    LET top == Pow2Below(IF q < 1 THEN 1 ELSE q)
    IN  IF top >= Precision \div 2 THEN top \div (Precision \div 2) ELSE 1

\* n / d rounded to the nearest whole number, ties to even (n >= 0, d > 0).
RoundDiv(n, d) ==
    LET q == n \div d
        r == n % d
    IN  IF 2 * r > d \/ (2 * r = d /\ q % 2 = 1) THEN q + 1 ELSE q

\* The float nearest to n / d ticks (n >= 0, d > 0).
Fl(n, d) == IF n = 0 THEN 0 ELSE Ulp(n \div d) * RoundDiv(n, d * Ulp(n \div d))

\* sqrt of the whole number x, as a float.
FSqrt(x) ==
    LET floor == ISqrt(x * Unit * Unit)
        step == Ulp(floor)
        m == floor \div step
    IN  IF 4 * x * Unit * Unit > ((2 * m + 1) * step) * ((2 * m + 1) * step)
        THEN (m + 1) * step
        ELSE m * step

\* a * b of two non-negative floats.
FMul(a, b) == Fl(a * b, Unit)

\* x / b of the whole number x by the positive float b.
FDiv(x, b) ==
    IF x < 0 THEN 0 - Fl((0 - x) * Unit * Unit, b) ELSE Fl(x * Unit * Unit, b)

\* The norm without its square root.
Norm_Squared(v) == Dot(v, v) * Unit

\* numpy.linalg.norm.
Norm(v) == FSqrt(Dot(v, v))

\* The score of one profile document: 0.0 unless the document has a
\* non-empty vector and both norms are positive.
Score(jd, doc) ==
    IF doc.embedding_vector # None /\ Get(doc.embedding_vector) # <<>>
    THEN LET cand == Get(doc.embedding_vector)
         IN  IF Norm(jd) > 0 /\ Norm(cand) > 0
             THEN FDiv(Dot(jd, cand), FMul(Norm(jd), Norm(cand)))
             ELSE 0
    ELSE 0

\* The ids that convert to ObjectIds, in their order.
ObjectIds(ids) == SelectSeq(ids, ValidObjectId)

\* numpy.dot raises ValueError for vectors of different lengths; it is
\* reached only for a document with a non-empty vector, and only when both
\* norms are positive.
DotRaises(jd, doc) ==
    /\ doc.embedding_vector # None
    /\ Get(doc.embedding_vector) # <<>>
    /\ Norm(jd) > 0
    /\ Norm(Get(doc.embedding_vector)) > 0
    /\ Len(Get(doc.embedding_vector)) # Len(jd)

\* find({"user": {"$in": object_ids}}).to_list(length=len(object_ids)): the
\* profiles whose user is one of the ids, in the store's order, cut to as
\* many documents as there are ids.
FetchProfiles(object_ids) ==
    LET ids == {object_ids[i] : i \in 1..Len(object_ids)}
        found == SelectSeq(userprofiles, LAMBDA d : d.user \in ids)
    IN  SubSeq(found, 1, IF Len(found) < Len(object_ids)
                         THEN Len(found) ELSE Len(object_ids))

\* The title of the first experience entry: position, role or title.
CurrentJobTitle(doc) ==
    IF doc.experience # <<>> THEN doc.experience[1].position ELSE None

\* experience_list: an ExperienceDetail per entry.
ExperienceList(doc) ==
    [k \in 1..Len(doc.experience) |->
        [company_name |-> doc.experience[k].company,
         job_title |-> doc.experience[k].position]]

\* The hit built from one profile document.
SearchCandidateHit(doc, score, source) ==
    [candidate_id |-> doc._id,
     user_id |-> doc.user,
     current_job_title |-> CurrentJobTitle(doc),
     experience |-> ExperienceList(doc),
     similarity_score |-> score,
     source |-> source]

\* The loop leaving out the documents that have no vector to score.
RankDocuments_SkipUnembedded(jd, documents) ==
    LET scored == SelectSeq(documents, LAMBDA d :
                      d.embedding_vector # None /\ Get(d.embedding_vector) # <<>>)
    IN  [hits |-> [i \in 1..Len(scored) |->
                      SearchCandidateHit(scored[i], Some(Score(jd, scored[i])), "applied")],
         exc |-> None]

\* The loop over the fetched documents: one hit per document, or the
\* exception of the first document whose score cannot be computed.
RankDocuments(jd, documents) ==
    IF \E i \in 1..Len(documents) : DotRaises(jd, documents[i])
    THEN [hits |-> <<>>, exc |-> Some("ValueError")]
    ELSE [hits |-> [i \in 1..Len(documents) |->
                      SearchCandidateHit(documents[i], Some(Score(jd, documents[i])),
                                         "applied")],
          exc |-> None]

\* _fetch_and_rank_profiles_manually: the hits, or the exception raised.
_fetch_and_rank_profiles_manually(jd, ids) ==
    IF ids = <<>> THEN [hits |-> <<>>, exc |-> None]
    ELSE RankDocuments(jd, FetchProfiles(ObjectIds(ids)))

\* The map keyed by the profile's own id instead of the user's.
HitKey_ProfileId(hit) == hit.candidate_id

\* The key of a hit in profile_map.
HitKey(hit) == hit.user_id

\* profile_map.get(key): the last hit with the key, or None.
ProfileMapGet(hits, key) ==
    LET at == {i \in 1..Len(hits) : HitKey(hits[i]) = key}
    IN  IF at = {} THEN None
        ELSE Some(hits[CHOOSE i \in at : \A j \in at : j <= i])

\* company = exp.company_name or company, for the first entry of the title.
MatchedCompany(profile) ==
    LET at == {k \in 1..Len(profile.experience) :
                  profile.experience[k].job_title = profile.current_job_title}
    IN  IF at = {} THEN "Unknown Company"
        ELSE LET first == CHOOSE k \in at : \A j \in at : k <= j
             IN  IF profile.experience[first].company_name # None
                 THEN Get(profile.experience[first].company_name)
                 ELSE "Unknown Company"

\* job_status of a merged hit: a text, kept as the sequence of its parts.
JobStatus(profile) ==
    IF profile.current_job_title # None
    THEN LET company ==
                 IF profile.experience = <<>> THEN "Unknown Company"
                 ELSE IF MatchedCompany(profile) = "Unknown Company"
                         /\ profile.experience[1].company_name # None
                      THEN Get(profile.experience[1].company_name)
                      ELSE MatchedCompany(profile)
         IN  <<Get(profile.current_job_title), " at ", company>>
    ELSE IF profile.experience # <<>>
         THEN <<Str(profile.experience[1].job_title), " at ",
                Str(profile.experience[1].company_name)>>
         ELSE <<"Fresher">>

\* The merge loop: one AppliedCandidateHit per application whose candidate
\* is in the map, in the order of the applications.
Merge(docs, hits) ==
    LET kept == SelectSeq(docs, LAMBDA a :
                    ProfileMapGet(hits, Str(a.candidateId)) # None)
    IN  [i \in 1..Len(kept) |->
            [application |-> kept[i]._id,
             candidateId |-> Str(kept[i].candidateId),
             job_status |->
                 JobStatus(Get(ProfileMapGet(hits, Str(kept[i].candidateId)))),
             similarity_score |->
                 Get(ProfileMapGet(hits, Str(kept[i].candidateId))).similarity_score]]

\* The sort key: x.similarity_score or -1.0.
SortKey(x) ==
    IF x.similarity_score = None \/ Get(x.similarity_score) = 0
    THEN 0 - Unit
    ELSE Get(x.similarity_score)

\* list.sort(key, reverse=True): descending by key, equal keys keeping their
\* order.
InsertDesc(sorted, x) ==
    LET k == Cardinality({i \in 1..Len(sorted) : SortKey(sorted[i]) >= SortKey(x)})
    IN  SubSeq(sorted, 1, k) \o <<x>> \o SubSeq(sorted, k + 1, Len(sorted))

RECURSIVE SortDesc(_)
SortDesc(seq) ==
    IF seq = <<>> THEN <<>>
    ELSE InsertDesc(SortDesc(SubSeq(seq, 1, Len(seq) - 1)), seq[Len(seq)])

\* The slice taken as if pages were numbered from 0.
Paginate_FromZero(list, page, count) ==
    SubSeq(list, page * count + 1,
           IF page * count + count < Len(list) THEN page * count + count ELSE Len(list))

\* results[start_idx:end_idx].
Paginate(list, page, count) ==
    LET start_idx == (page - 1) * count
        end_idx == start_idx + count
    IN  SubSeq(list, start_idx + 1, IF end_idx < Len(list) THEN end_idx ELSE Len(list))

NewAppliedSearchResponse(page, count, total, list) ==
    [pagination |-> [page |-> page, page_size |-> count, total_matches |-> total],
     results |-> list]

SearchApplied(page, count) ==
    /\ request = None
    /\ request' = Some([page |-> page, count |-> count])
    /\ LET fetched == _fetch_applications
       IN  IF fetched.docs = <<>>
           THEN /\ ranked_hits' = <<>>
                /\ results' = <<>>
                /\ candidate_ids' = <<>>
                /\ raised' = None
                /\ response' = Some(NewAppliedSearchResponse(page, count, 0, <<>>))
           ELSE LET ranked == _fetch_and_rank_profiles_manually(
                                  jd_embedding, CandidateIds(fetched.docs))
                    sorted == SortDesc(Merge(fetched.docs, ranked.hits))
                IN  /\ candidate_ids' = CandidateIds(fetched.docs)
                    /\ IF ranked.exc # None
                       THEN /\ raised' = ranked.exc
                            /\ UNCHANGED <<ranked_hits, results, response>>
                       ELSE /\ raised' = None
                            /\ ranked_hits' = ranked.hits
                            /\ results' = sorted
                            /\ response' = Some(NewAppliedSearchResponse(
                                   page, count, fetched.total,
                                   Paginate(sorted, page, count)))
    /\ UNCHANGED <<pureVars, lifeVars, applications, userprofiles, jd_embedding>>

NextSearch == \E page \in Pages, count \in Counts : SearchApplied(page, count)

SpecSearch == InitSearch /\ [][NextSearch]_vars

\* search_applied for one applicant, for any experience list of the profile.
Titles == {None, Some("Engineer"), Some("Analyst")}
Companies == {None, Some("Acme"), Some("Globex")}
ExperienceEntries == [position : Titles, company : Companies]
ExperienceLists == UNION {[1..n -> ExperienceEntries] : n \in 0..MaxExperience}

InitStatus ==
    /\ kind = "job"
    /\ collection = <<>>
    /\ LifeIdle
    /\ NoPure
    /\ applications = <<[_id |-> "a1", candidateId |-> Some("u1"),
                         currentStatus |-> "Applied"]>>
    /\ \E e \in ExperienceLists :
           userprofiles = <<[_id |-> "p1", user |-> "u1",
                             embedding_vector |-> Some(<<4, 3>>),
                             experience |-> e]>>
    /\ jd_embedding = <<5, 0>>
    /\ request = None
    /\ ranked_hits = <<>>
    /\ results = <<>>
    /\ response = None
    /\ candidate_ids = <<>>
    /\ raised = None

SpecStatus == InitStatus /\ [][NextSearch]_vars


\* =============================================================== ranking
\* The two ranking routines on their own, for any list of candidate ids and
\* any content of the profile collection.
RequestIds == UserIds \cup {InvalidId}
IdLists == UNION {[1..n -> RequestIds] : n \in 0..MaxIds}

\* embedding_vector of a profile: missing, of the query's length, or of
\* another length.
RankVectors == {None, Some(<<4, 3>>), Some(<<1>>)}
RankKinds == [user : UserIds, embedding_vector : RankVectors]
RankCollections ==
    {[i \in 1..n |-> [_id |-> ProfileIds[i],
                      user |-> f[i].user,
                      embedding_vector |-> f[i].embedding_vector,
                      experience |-> <<>>]] :
        n \in 0..MaxDocs, f \in [1..MaxDocs -> RankKinds]}

Limits == {None, Some(1), Some(2), Some(200)}
Scopes == {"applied", "global"}

InitRank ==
    /\ kind = "job"
    /\ collection = <<>>
    /\ LifeIdle
    /\ NoPure
    /\ applications = <<>>
    /\ userprofiles \in RankCollections
    /\ jd_embedding = <<5, 0>>
    /\ candidate_ids \in IdLists
    /\ request = None
    /\ ranked_hits = <<>>
    /\ results = <<>>
    /\ response = None
    /\ raised = None

\* The scoring of the manual routine on its own: up to MaxScored profiles,
\* each of a user of its own and all of them requested, with vectors that
\* are missing, empty, all zero, of norms that are and are not floats, and
\* multiples of one another.
ScoredUsers == <<"u1", "u2", "u3">>
ScoreVectors ==
    {None, Some(<<>>), Some(<<0, 0>>), Some(<<1, 1>>), Some(<<3, 3>>),
     Some(<<3, 4>>), Some(<<4, 3>>)}
ScoreQueries == {<<0, 0>>, <<1, 1>>, <<3, 3>>, <<3, 4>>}
ScoreCollections ==
    {[i \in 1..n |-> [_id |-> ProfileIds[i],
                      user |-> ScoredUsers[i],
                      embedding_vector |-> f[i],
                      experience |-> <<>>]] :
        n \in 1..MaxScored, f \in [1..MaxScored -> ScoreVectors]}

InitScore ==
    /\ kind = "job"
    /\ collection = <<>>
    /\ LifeIdle
    /\ NoPure
    /\ applications = <<>>
    /\ userprofiles \in ScoreCollections
    /\ jd_embedding \in ScoreQueries
    /\ candidate_ids = [i \in 1..Len(userprofiles) |-> userprofiles[i].user]
    /\ request = None
    /\ ranked_hits = <<>>
    /\ results = <<>>
    /\ response = None
    /\ raised = None

\* One call of _fetch_and_rank_profiles_manually.
RankManually ==
    /\ request = None
    /\ request' = Some([strategy |-> "manual"])
    /\ LET ranked == _fetch_and_rank_profiles_manually(jd_embedding, candidate_ids)
       IN  /\ ranked_hits' = ranked.hits
           /\ raised' = ranked.exc
    /\ UNCHANGED <<pureVars, lifeVars, applications, userprofiles, jd_embedding, results,
                   response, candidate_ids>>

\* limit or DEFAULT_GLOBAL_LIMIT.
LimitOf(limit) ==
    IF limit = None \/ Get(limit) = 0 THEN DEFAULT_GLOBAL_LIMIT ELSE Get(limit)

\* vector_search_limit: three times the limit, at most 500, when there are
\* ids to filter by; the limit itself otherwise.
VectorSearchLimit(object_ids, limit) ==
    IF object_ids # <<>>
    THEN (IF limit * 3 < 500 THEN limit * 3 ELSE 500)
    ELSE limit

\* The documents the index holds for a query: those with a vector of the
\* query's length.
Indexed(jd) ==
    SelectSeq(userprofiles, LAMBDA d :
        /\ d.embedding_vector # None
        /\ Len(Get(d.embedding_vector)) = Len(jd))

\* Descending by score, equal scores in the store's order.
InsertByScore(jd, sorted, d) ==
    LET k == Cardinality({i \in 1..Len(sorted) : Score(jd, sorted[i]) >= Score(jd, d)})
    IN  SubSeq(sorted, 1, k) \o <<d>> \o SubSeq(sorted, k + 1, Len(sorted))

RECURSIVE ByScore(_, _)
ByScore(jd, docs) ==
    IF docs = <<>> THEN <<>>
    ELSE InsertByScore(jd, ByScore(jd, SubSeq(docs, 1, Len(docs) - 1)), docs[Len(docs)])

Take(seq, n) == SubSeq(seq, 1, IF n < Len(seq) THEN n ELSE Len(seq))

\* The aggregation pipeline: $vectorSearch with vector_search_limit, $match
\* on user when there are object ids, $limit, and to_list(length=limit).
Pipeline(jd, object_ids, limit) ==
    LET searched == Take(ByScore(jd, Indexed(jd)), VectorSearchLimit(object_ids, limit))
        ids == {object_ids[i] : i \in 1..Len(object_ids)}
        matched == IF object_ids # <<>>
                   THEN SelectSeq(searched, LAMBDA d : d.user \in ids)
                   ELSE searched
    IN  Take(matched, limit)

\* _rank_candidates_via_vector_search: one hit per document of the pipeline.
_rank_candidates_via_vector_search(jd, candidate_scope, ids, limit) ==
    LET documents == Pipeline(jd, ObjectIds(ids), LimitOf(limit))
    IN  [i \in 1..Len(documents) |->
            SearchCandidateHit(documents[i], Some(Score(jd, documents[i])),
                               candidate_scope)]

\* One call of _rank_candidates_via_vector_search.
RankViaVectorSearch(candidate_scope, limit) ==
    /\ request = None
    /\ request' = Some([strategy |-> "vector",
                        limit |-> LimitOf(limit),
                        vector_search_limit |->
                            VectorSearchLimit(ObjectIds(candidate_ids), LimitOf(limit))])
    /\ ranked_hits' = _rank_candidates_via_vector_search(
                          jd_embedding, candidate_scope, candidate_ids, limit)
    /\ raised' = None
    /\ UNCHANGED <<pureVars, lifeVars, applications, userprofiles, jd_embedding, results,
                   response, candidate_ids>>

\* Counts search_global can be called with: none, zero, small ones, the
\* largest allowed, one beyond it, and a negative one.
GlobalCounts ==
    {None, Some(0), Some(1), Some(2), Some(MAX_GLOBAL_LIMIT),
     Some(MAX_GLOBAL_LIMIT + 1), Some(0 - 1)}

\* search_global's requested count without the clamp to 1..MAX_GLOBAL_LIMIT.
Requested_Unclamped(count) ==
    IF count = None \/ Get(count) = 0 THEN DEFAULT_GLOBAL_LIMIT ELSE Get(count)

\* requested = count or DEFAULT_GLOBAL_LIMIT;
\* requested = max(1, min(requested, MAX_GLOBAL_LIMIT))
Requested(count) ==
    LET requested == IF count = None \/ Get(count) = 0
                     THEN DEFAULT_GLOBAL_LIMIT
                     ELSE Get(count)
        capped == IF requested < MAX_GLOBAL_LIMIT THEN requested
                  ELSE MAX_GLOBAL_LIMIT
    IN  IF capped > 1 THEN capped ELSE 1

\* GlobalSearchResponse(job_id, requested_count, results, cache_hit, embedding_model)
GlobalSearchResponse(requested, hits) ==
    [requested_count |-> requested, results |-> hits]

\* search_global once the query vector is resolved: the ranking with
\* candidate_ids=None and limit=requested, and the response.
SearchGlobal(count) ==
    /\ request = None
    /\ LET requested == Requested(count)
           hits == _rank_candidates_via_vector_search(
                       jd_embedding, "global", <<>>, Some(requested))
       IN  /\ request' = Some([strategy |-> "global",
                               count |-> count,
                               limit |-> LimitOf(Some(requested)),
                               object_ids |-> ObjectIds(<<>>),
                               vector_search_limit |->
                                   VectorSearchLimit(ObjectIds(<<>>),
                                                     LimitOf(Some(requested)))])
           /\ ranked_hits' = hits
           /\ response' = Some(GlobalSearchResponse(requested, hits))
    /\ raised' = None
    /\ UNCHANGED <<pureVars, lifeVars, applications, userprofiles, jd_embedding, results,
                   candidate_ids>>

NextScore == RankManually

SpecScore == InitScore /\ [][NextScore]_vars

NextRank ==
    \/ RankManually
    \/ \E candidate_scope \in Scopes, limit \in Limits :
           RankViaVectorSearch(candidate_scope, limit)

SpecRank == InitRank /\ [][NextRank]_vars

\* search_global on any content of the profile collection: the request
\* names no candidate ids.
InitGlobal ==
    /\ kind = "job"
    /\ collection = <<>>
    /\ LifeIdle
    /\ NoPure
    /\ applications = <<>>
    /\ userprofiles \in RankCollections
    /\ jd_embedding = <<5, 0>>
    /\ candidate_ids = <<>>
    /\ request = None
    /\ ranked_hits = <<>>
    /\ results = <<>>
    /\ response = None
    /\ raised = None

NextGlobal == \E count \in GlobalCounts : SearchGlobal(count)

SpecGlobal == InitGlobal /\ [][NextGlobal]_vars
\* ============================================================ retry loop
\* What one client.embeddings.create call can come to.
Answers ==
    {OpenAIError, NotAList, List(EMBEDDING_VECTOR_SIZE)}
        \cup {List(n) : n \in BadLengths}

\* Every behaviour of the provider over the calls one request can make, and
\* one call beyond them.
AllScripts == [1..max_retries + 1 -> Answers]

InitRetry ==
    /\ kind = "job"
    /\ collection = <<>>
    /\ LifeIdle
    /\ NoSearch
    /\ replies \in AllScripts
    /\ loop = None
    /\ NoText
    /\ NoClient
    /\ NoProjection

\* generate_job_embedding / generate_candidate_embedding: the retry loop, then
\* _validate_vector on what it returned.
GenerateEmbedding ==
    /\ loop = None
    /\ LET r == _sync_generate_embedding(replies, 1, 0, <<>>)
           exc == IF r.exc # None THEN r.exc
                  ELSE IF ValidateVector([len |-> Get(r.vector), id |-> 1, of |-> 0])
                       THEN None
                       ELSE Some("ValueError")
       IN  loop' = Some([calls |-> r.calls, slept |-> r.slept, exc |-> exc,
                         vector |-> IF exc = None THEN r.vector ELSE None])
    /\ UNCHANGED <<replies, source_doc, built_text, clientVars, projectVars,
                 lifeVars, searchVars>>

NextRetry == GenerateEmbedding

SpecRetry == InitRetry /\ [][NextRetry]_vars

\* ======================================================== text synthesis
\* EmbeddingService._build_job_text.  A value of a document field is tagged
\* with its Python type; a text is the sequence of its pieces, " " being a
\* piece of whitespace.
Absent == [t |-> "none"]
PyStr(x) == [t |-> "str", s |-> x]
PyList(xs) == [t |-> "list", items |-> xs]
Loc(city, state, country) ==
    [t |-> "dict", city |-> city, state |-> state, country |-> country]
Range(summary) == [t |-> "dict", summary |-> summary]

\* Python falsiness: None, "" and [].
Falsy(x) ==
    \/ x.t = "none"
    \/ x.t = "str" /\ x.s = ""
    \/ x.t = "list" /\ x.items = <<>>

\* a or b
PyOr(a, b) == IF Falsy(a) THEN b ELSE a

\* sep.join(texts)
RECURSIVE Join(_, _)
Join(texts, sep) ==
    IF texts = <<>> THEN <<>>
    ELSE IF Len(texts) = 1 THEN texts[1]
    ELSE texts[1] \o sep \o Join(Tail(texts), sep)

\* str.strip(): leading and trailing whitespace (and nothing) dropped.
Blank(piece) == piece = " " \/ piece = ""
RECURSIVE Strip(_)
Strip(pieces) ==
    IF pieces = <<>> THEN <<>>
    ELSE IF Blank(pieces[1]) THEN Strip(Tail(pieces))
    ELSE IF Blank(pieces[Len(pieces)])
    THEN Strip(SubSeq(pieces, 1, Len(pieces) - 1))
    ELSE pieces

\* The text of a string value.
Text(x) == <<x.s>>

\* The texts of the strings of a list.
Texts(items) == [i \in 1..Len(items) |-> Text(items[i])]

\* One entry of locations: the city, state and country a dict has, joined;
\* a string as it is; nothing for a dict with none of the three.
LocationText(loc) ==
    IF loc.t = "dict"
    THEN LET present == SelectSeq(<<loc.city, loc.state, loc.country>>,
                                  LAMBDA v : ~Falsy(v))
         IN  IF present # <<>> THEN <<Join(Texts(present), <<", ">>)>> ELSE <<>>
    ELSE IF loc.t = "str" THEN <<Text(loc)>>
    ELSE <<>>

RECURSIVE LocationTexts(_)
LocationTexts(items) ==
    IF items = <<>> THEN <<>>
    ELSE LocationText(items[1]) \o LocationTexts(Tail(items))

\* industry_str = ", ".join(industry) if isinstance(industry, list)
\*                else str(industry or "Industry n/a")
IndustryText(industry) ==
    IF industry.t = "list"
    THEN Join(Texts(industry.items), <<", ">>)
    ELSE Text(PyOr(industry, PyStr("Industry n/a")))

_build_job_text(doc) ==
    LET title == PyOr(doc.title, PyStr("Untitled role"))
        employment_type ==
            PyOr(PyOr(doc.employmentType, doc.employment_type), PyStr("Type n/a"))
        work_model ==
            PyOr(PyOr(doc.workModel, doc.work_model), PyStr("Work model n/a"))
        range == PyOr(doc.experienceRange, Range(Absent))
        experience_range == PyOr(range.summary, PyStr("Experience range n/a"))
        skills == PyOr(PyOr(doc.skillsRequired, doc.skills), PyList(<<>>))
        skills_str == IF ~Falsy(skills)
                      THEN Join(Texts(skills.items), <<", ">>)
                      ELSE <<"Skills not provided">>
        industry == PyOr(PyOr(doc.industry, doc.industries), PyList(<<>>))
        industry_str == IndustryText(industry)
        locations == PyOr(PyOr(doc.locations, doc.location), PyList(<<>>))
        locations_str ==
            IF locations.t = "list"
            THEN LET loc_strs == LocationTexts(locations.items)
                 IN  IF loc_strs # <<>> THEN Join(loc_strs, <<", ">>)
                     ELSE <<"Locations not provided">>
            ELSE Text(PyOr(locations, PyStr("Locations not provided")))
        description == PyOr(doc.description, PyStr("Description not provided"))
        parts == <<Text(title),
                   Text(employment_type),
                   Text(work_model),
                   Text(experience_range),
                   <<"Skills:", " ">> \o skills_str,
                   <<"Industry:", " ">> \o industry_str,
                   <<"Locations:", " ">> \o locations_str,
                   <<"Description:", " ">> \o Text(description)>>
    IN  Join([i \in 1..Len(parts) |-> Strip(parts[i])], <<" | ">>)

\* Job documents: every optional field missing, empty or given, under its
\* first or its second name.
TextDocs ==
    [title : {Absent, PyStr(""), PyStr("Engineer")},
     employmentType : {Absent, PyStr("Full-time")},
     employment_type : {Absent, PyStr("Contract")},
     workModel : {Absent, PyStr("Remote")},
     work_model : {Absent},
     experienceRange : {Absent, Range(Absent), Range(PyStr("2-4 years"))},
     skillsRequired : {Absent, PyList(<<>>), PyList(<<PyStr("python"), PyStr("sql")>>)},
     skills : {Absent},
     industry : {Absent, PyList(<<>>), PyList(<<PyStr("Fintech"), PyStr("SaaS")>>), PyStr("Fintech")},
     industries : {Absent, PyList(<<PyStr("Retail")>>)},
     locations : {Absent, PyList(<<>>),
                  PyList(<<PyStr("Pune"), Loc(PyStr("Austin"), Absent, PyStr("USA"))>>),
                  PyList(<<Loc(Absent, Absent, Absent)>>), PyStr("Remote")},
     location : {Absent, PyStr("Onsite")},
     description : {Absent, PyStr("Build things")}]

InitText ==
    /\ kind = "job"
    /\ collection = <<>>
    /\ LifeIdle
    /\ NoSearch
    /\ NoRetryLoop
    /\ NoClient
    /\ NoProjection
    /\ source_doc \in {Some(d) : d \in TextDocs}
    /\ built_text = None

\* text = self._build_job_text(job_doc)
BuildJobText ==
    /\ built_text = None
    /\ built_text' = Some(_build_job_text(Get(source_doc)))
    /\ UNCHANGED <<replies, loop, source_doc, clientVars, projectVars,
                 lifeVars, searchVars>>

NextText == BuildJobText

SpecText == InitText /\ [][NextText]_vars

\* ======================================================= provider handle
\* _get_azure_client on the worker threads.  A thread can be switched out
\* between the test of the global and the assignment to it.
InitClient ==
    /\ kind = "job"
    /\ collection = <<>>
    /\ LifeIdle
    /\ NoSearch
    /\ NoRetryLoop
    /\ NoText
    /\ NoClient
    /\ NoProjection

\* client = _get_azure_client(self.settings): `if _azure_client is None`.
TestClient(t) ==
    /\ where[t] = "out"
    /\ asked[t] < MaxAsked
    /\ asked' = [asked EXCEPT ![t] = @ + 1]
    /\ where' = [where EXCEPT ![t] = IF _azure_client = None THEN "construct"
                               ELSE "return"]
    /\ UNCHANGED <<_azure_client, client, constructed>>
    /\ UNCHANGED <<replies, loop, source_doc, built_text, projectVars,
                 lifeVars, searchVars>>

\* _azure_client = AzureOpenAI(...)
ConstructClient(t) ==
    /\ where[t] = "construct"
    /\ constructed' = constructed + 1
    /\ _azure_client' = Some(constructed + 1)
    /\ where' = [where EXCEPT ![t] = "return"]
    /\ UNCHANGED <<client, asked>>
    /\ UNCHANGED <<replies, loop, source_doc, built_text, projectVars,
                 lifeVars, searchVars>>

\* return _azure_client
ReturnClient(t) ==
    /\ where[t] = "return"
    /\ client' = [client EXCEPT ![t] = _azure_client]
    /\ where' = [where EXCEPT ![t] = "out"]
    /\ UNCHANGED <<_azure_client, constructed, asked>>
    /\ UNCHANGED <<replies, loop, source_doc, built_text, projectVars,
                 lifeVars, searchVars>>

GetClientStep(t) ==
    \/ TestClient(t)
    \/ ConstructClient(t)
    \/ ReturnClient(t)

NextClient == \E t \in Threads : GetClientStep(t)

SpecClient == InitClient /\ [][NextClient]_vars

\* ========================================================= whole request
\* search_applied from its first line to its response: the job is read and
\* its embedding ensured by a single caller, and once ensure_embedding has
\* returned the applications are fetched, scored, merged, sorted and paged.
\* jd_embedding stands for the floats of the vector ensure_embedding returns.
RequestApplications == {c \in ApplicationCollections : Len(c) <= 1}
RequestProfiles ==
    {c \in ProfileCollections :
        Len(c) <= 1 /\ \A i \in 1..Len(c) : c[i].embedding_vector # None}

InitRequest ==
    /\ kind = "job"
    /\ collection \in {<<d>> : d \in JobDocs}
    /\ LifeIdle
    /\ NoPure
    /\ applications \in RequestApplications
    /\ userprofiles \in RequestProfiles
    /\ jd_embedding \in QueryVectors
    /\ request = None
    /\ ranked_hits = <<>>
    /\ results = <<>>
    /\ response = None
    /\ candidate_ids = <<>>
    /\ raised = None

\* search_applied after `jd_embedding, meta = await
\* self._ensure_job_embedding(job)` has returned; an exception raised there
\* leaves the method before this point.
SearchAfterEnsure(p, page, count) ==
    /\ pc[p] = "done"
    /\ op[p] = "ensure"
    /\ Get(outcome[p]).type = "return"
    /\ SearchApplied(page, count)

RequestStep(p) ==
    \/ \E id \in JobIds : EnsureStart(p, id)
    \/ EnsureRefresh(p)
    \/ SetProcessing(p)
    \/ \E answers \in Scripts : Generate(p, answers)
    \/ Persist(p)
    \/ Fail(p)
    \/ Reread(p)
    \/ \E page \in Pages, count \in Counts : SearchAfterEnsure(p, page, count)
    \/ Finish(p)

NextRequest == (\E p \in Solo : RequestStep(p)) \/ Tick

SpecRequest == InitRequest /\ [][NextRequest]_vars

\* ======================================================== hit projection
\* The SearchCandidateHit each ranking routine builds from one userprofiles
\* document.  Values are tagged with their Python type as in the text
\* synthesis; a key whose value is Absent is a key the document lacks.
Datetime(b, Y) == [t |-> "datetime", b |-> b, Y |-> Y]
PyText(pieces) == [t |-> "text", pieces |-> pieces]
EmptyDict == [t |-> "dict"]
EmptyList == PyList(<<>>)

\* dict.get(key) and dict.get(key, default).
DictGet(d, key) == IF key \in DOMAIN d THEN d[key] ELSE Absent
DictGetOr(d, key, default) ==
    IF DictGet(d, key) = Absent THEN default ELSE DictGet(d, key)

\* str.lower() on the strings of the model.
Lower(s) ==
    CASE s = "Present" -> "present"
      [] s = "PRESENT" -> "present"
      [] OTHER -> s

\* datetime.strftime("%b %Y")
Strftime(d) == <<d.b, " ", d.Y>>

\* The fields the $project stage of the pipeline keeps, and the document it
\* hands to the loop: those fields and the index's score.
ProjectedFields_NoSocials ==
    {"_id", "user", "personal_information", "skills", "experience", "education",
     "location", "embedding_model", "embedding_last_generated_at"}

ProjectedFields ==
    {"_id", "user", "personal_information", "socials", "skills", "experience",
     "education", "location", "embedding_model", "embedding_last_generated_at"}

ProjectStage(jd, doc) ==
    [f \in ProjectedFields \cup {"score"} |->
        IF f = "score" THEN Score(jd, doc) ELSE doc[f]]

\* The loop body of _rank_candidates_via_vector_search (lines 483-596).
VectorSearchHit(doc, candidate_scope) ==
    LET personal == PyOr(DictGet(doc, "personal_information"), EmptyDict)
        socials == PyOr(DictGet(doc, "socials"), EmptyDict)
        location_value == PyOr(DictGet(doc, "location"), DictGet(personal, "location"))
        full_name ==
            PyOr(DictGet(personal, "full_name"),
                 PyText(Strip(Text(DictGetOr(personal, "first_name", PyStr("")))
                              \o <<" ">>
                              \o Text(DictGetOr(personal, "last_name", PyStr(""))))))
        experiences_raw == DictGetOr(doc, "experience", EmptyList)
        has_latest ==
            /\ ~Falsy(experiences_raw)
            /\ experiences_raw.t = "list"
            /\ Len(experiences_raw.items) > 0
            /\ experiences_raw.items[1].t = "dict"
        latest_exp == experiences_raw.items[1]
        latest_end == PyOr(DictGet(latest_exp, "end_date"), DictGet(latest_exp, "endDate"))
        is_current_position ==
            \/ Falsy(latest_end)
            \/ latest_end.t = "str" /\ Lower(latest_end.s) = "present"
        current_job_title ==
            IF has_latest
            THEN PyOr(PyOr(DictGet(latest_exp, "position"), DictGet(latest_exp, "role")),
                      DictGet(latest_exp, "title"))
            ELSE Absent
        employment_status ==
            IF has_latest
            THEN (IF is_current_position THEN PyStr("Currently Working")
                  ELSE PyStr("Open to Opportunities"))
            ELSE Absent
        contact_info ==
            [email |-> DictGet(personal, "email"),
             phone |-> PyOr(DictGet(personal, "phone"), DictGet(personal, "phone_number")),
             github |-> DictGet(socials, "github"),
             linkedin |-> DictGet(socials, "linkedin")]
        skills_raw == DictGetOr(doc, "skills", EmptyList)
        SkillName(skill) == PyOr(DictGet(skill, "skill_name"), DictGet(skill, "name"))
        Proficiency(skill) ==
            PyOr(PyOr(PyOr(DictGet(skill, "skill_proficiency"),
                           DictGet(skill, "proficiency_level")),
                      DictGet(skill, "proficiency")),
                 DictGet(skill, "level"))
        skills_list ==
            IF skills_raw.t = "list"
            THEN LET kept == SelectSeq(skills_raw.items, LAMBDA skill :
                                 \/ skill.t = "str"
                                 \/ skill.t = "dict" /\ ~Falsy(SkillName(skill)))
                 IN  [k \in 1..Len(kept) |->
                        IF kept[k].t = "str"
                        THEN [skill_name |-> kept[k], proficiency_level |-> Absent]
                        ELSE [skill_name |-> SkillName(kept[k]),
                              proficiency_level |-> Proficiency(kept[k])]]
            ELSE <<>>
        Detail(exp) ==
            LET start_date_raw == PyOr(DictGet(exp, "start_date"), DictGet(exp, "startDate"))
                end_date_raw == PyOr(DictGet(exp, "end_date"), DictGet(exp, "endDate"))
                start_date ==
                    IF start_date_raw.t = "datetime" THEN Strftime(start_date_raw)
                    ELSE IF ~Falsy(start_date_raw) THEN Text(start_date_raw)
                    ELSE <<>>
                end_date ==
                    IF end_date_raw.t = "datetime" THEN Strftime(end_date_raw)
                    ELSE IF Falsy(end_date_raw) THEN <<"Present">>
                    ELSE Text(end_date_raw)
                duration ==
                    IF start_date # <<>>
                    THEN PyText(start_date \o <<" - ">> \o end_date)
                    ELSE Absent
                is_current ==
                    \/ Falsy(end_date_raw)
                    \/ end_date_raw.t = "str" /\ Lower(end_date_raw.s) = "present"
            IN  [company_name |-> PyOr(DictGet(exp, "company"), DictGet(exp, "company_name")),
                 job_title |-> PyOr(PyOr(DictGet(exp, "position"), DictGet(exp, "role")),
                                    DictGet(exp, "title")),
                 duration |-> duration,
                 start_date |-> PyText(start_date),
                 end_date |-> PyText(end_date),
                 description |-> DictGet(exp, "description"),
                 is_current |-> is_current]
        experience_list ==
            IF experiences_raw.t = "list"
            THEN LET dicts == SelectSeq(experiences_raw.items, LAMBDA exp : exp.t = "dict")
                 IN  [k \in 1..Len(dicts) |-> Detail(dicts[k])]
            ELSE <<>>
    IN  [candidate_id |-> doc["_id"],
         user_id |-> DictGet(doc, "user"),
         full_name |-> full_name,
         current_job_title |-> current_job_title,
         employment_status |-> employment_status,
         location |-> location_value,
         contact_info |-> contact_info,
         skills |-> skills_list,
         skills_count |-> Len(skills_list),
         experience |-> experience_list,
         experience_count |-> Len(experience_list),
         similarity_score |-> DictGet(doc, "score"),
         source |-> candidate_scope,
         embedding_model |-> DictGet(doc, "embedding_model"),
         embedding_generated_at |-> DictGet(doc, "embedding_last_generated_at")]

\* The loop body of _fetch_and_rank_profiles_manually (lines 632-756): the
\* score is computed from the document's vector and the source is "applied".
ManualHit(jd, doc) ==
    LET score == Score(jd, doc)
        personal == PyOr(DictGet(doc, "personal_information"), EmptyDict)
        socials == PyOr(DictGet(doc, "socials"), EmptyDict)
        location_value == PyOr(DictGet(doc, "location"), DictGet(personal, "location"))
        full_name ==
            PyOr(DictGet(personal, "full_name"),
                 PyText(Strip(Text(DictGetOr(personal, "first_name", PyStr("")))
                              \o <<" ">>
                              \o Text(DictGetOr(personal, "last_name", PyStr(""))))))
        experiences_raw == DictGetOr(doc, "experience", EmptyList)
        has_latest ==
            /\ ~Falsy(experiences_raw)
            /\ experiences_raw.t = "list"
            /\ Len(experiences_raw.items) > 0
            /\ experiences_raw.items[1].t = "dict"
        latest_exp == experiences_raw.items[1]
        latest_end == PyOr(DictGet(latest_exp, "end_date"), DictGet(latest_exp, "endDate"))
        is_current_position ==
            \/ Falsy(latest_end)
            \/ latest_end.t = "str" /\ Lower(latest_end.s) = "present"
        current_job_title ==
            IF has_latest
            THEN PyOr(PyOr(DictGet(latest_exp, "position"), DictGet(latest_exp, "role")),
                      DictGet(latest_exp, "title"))
            ELSE Absent
        employment_status ==
            IF has_latest
            THEN (IF is_current_position THEN PyStr("Currently Working")
                  ELSE PyStr("Open to Opportunities"))
            ELSE Absent
        contact_info ==
            [email |-> DictGet(personal, "email"),
             phone |-> PyOr(DictGet(personal, "phone"), DictGet(personal, "phone_number")),
             github |-> DictGet(socials, "github"),
             linkedin |-> DictGet(socials, "linkedin")]
        skills_raw == DictGetOr(doc, "skills", EmptyList)
        SkillName(skill) == PyOr(DictGet(skill, "skill_name"), DictGet(skill, "name"))
        Proficiency(skill) ==
            PyOr(PyOr(PyOr(DictGet(skill, "skill_proficiency"),
                           DictGet(skill, "proficiency_level")),
                      DictGet(skill, "proficiency")),
                 DictGet(skill, "level"))
        skills_list ==
            IF skills_raw.t = "list"
            THEN LET kept == SelectSeq(skills_raw.items, LAMBDA skill :
                                 \/ skill.t = "str"
                                 \/ skill.t = "dict" /\ ~Falsy(SkillName(skill)))
                 IN  [k \in 1..Len(kept) |->
                        IF kept[k].t = "str"
                        THEN [skill_name |-> kept[k], proficiency_level |-> Absent]
                        ELSE [skill_name |-> SkillName(kept[k]),
                              proficiency_level |-> Proficiency(kept[k])]]
            ELSE <<>>
        Detail(exp) ==
            LET start_date_raw == PyOr(DictGet(exp, "start_date"), DictGet(exp, "startDate"))
                end_date_raw == PyOr(DictGet(exp, "end_date"), DictGet(exp, "endDate"))
                start_date ==
                    IF start_date_raw.t = "datetime" THEN Strftime(start_date_raw)
                    ELSE IF ~Falsy(start_date_raw) THEN Text(start_date_raw)
                    ELSE <<>>
                end_date ==
                    IF end_date_raw.t = "datetime" THEN Strftime(end_date_raw)
                    ELSE IF Falsy(end_date_raw) THEN <<"Present">>
                    ELSE Text(end_date_raw)
                duration ==
                    IF start_date # <<>>
                    THEN PyText(start_date \o <<" - ">> \o end_date)
                    ELSE Absent
                is_current ==
                    \/ Falsy(end_date_raw)
                    \/ end_date_raw.t = "str" /\ Lower(end_date_raw.s) = "present"
            IN  [company_name |-> PyOr(DictGet(exp, "company"), DictGet(exp, "company_name")),
                 job_title |-> PyOr(PyOr(DictGet(exp, "position"), DictGet(exp, "role")),
                                    DictGet(exp, "title")),
                 duration |-> duration,
                 start_date |-> PyText(start_date),
                 end_date |-> PyText(end_date),
                 description |-> DictGet(exp, "description"),
                 is_current |-> is_current]
        experience_list ==
            IF experiences_raw.t = "list"
            THEN LET dicts == SelectSeq(experiences_raw.items, LAMBDA exp : exp.t = "dict")
                 IN  [k \in 1..Len(dicts) |-> Detail(dicts[k])]
            ELSE <<>>
    IN  [candidate_id |-> doc["_id"],
         user_id |-> DictGet(doc, "user"),
         full_name |-> full_name,
         current_job_title |-> current_job_title,
         employment_status |-> employment_status,
         location |-> location_value,
         contact_info |-> contact_info,
         skills |-> skills_list,
         skills_count |-> Len(skills_list),
         experience |-> experience_list,
         experience_count |-> Len(experience_list),
         similarity_score |-> score,
         source |-> "applied",
         embedding_model |-> DictGet(doc, "embedding_model"),
         embedding_generated_at |-> DictGet(doc, "embedding_last_generated_at")]

\* Candidate documents: every field the projection reads missing, empty or
\* given, under its first or its second name and in each of its types.
PersonalInformation ==
    {Absent} \cup
    [t : {"dict"},
     full_name : {Absent, PyStr("Ada Lovelace")},
     first_name : {Absent, PyStr("Ada")},
     last_name : {Absent, PyStr("Lovelace")},
     location : {Absent, PyStr("London")},
     email : {PyStr("ada@example.org")},
     phone : {Absent},
     phone_number : {PyStr("555")}]

Socials == {Absent, [t |-> "dict", github |-> PyStr("gh/ada"), linkedin |-> Absent]}

ExperienceDicts ==
    [t : {"dict"},
     position : {Absent, PyStr("Engineer")},
     role : {Absent},
     title : {PyStr("Developer")},
     company : {Absent},
     company_name : {PyStr("Initech")},
     start_date : {Absent, PyStr("2019"), Datetime("Jun", "2022")},
     startDate : {Absent},
     end_date : {Absent, PyStr(""), PyStr("Present"), PyStr("2021"), Datetime("Jan", "2024")},
     endDate : {Absent, PyStr("PRESENT")},
     description : {PyStr("Built things")}]

OlderExperience ==
    [t |-> "dict", position |-> Absent, role |-> PyStr("Intern"), title |-> Absent,
     company |-> PyStr("Acme"), company_name |-> Absent,
     start_date |-> Absent, startDate |-> PyStr("2015"),
     end_date |-> PyStr("2016"), endDate |-> Absent, description |-> Absent]

Experiences ==
    {Absent, EmptyList, PyStr("none yet"),
     PyList(<<PyStr("freelance"), OlderExperience>>)}
    \cup {PyList(<<e>>) : e \in ExperienceDicts}
    \cup {PyList(<<e, OlderExperience>>) :
             e \in {x \in ExperienceDicts : x.position = Absent /\ x.start_date = Absent}}

SkillsLists ==
    {Absent,
     PyStr("python"),
     PyList(<<PyStr("python"),
              [t |-> "dict", skill_name |-> PyStr("sql"), name |-> Absent,
               skill_proficiency |-> PyStr("expert"), proficiency_level |-> Absent,
               proficiency |-> Absent, level |-> Absent],
              [t |-> "dict", skill_name |-> Absent, name |-> PyStr("go"),
               skill_proficiency |-> Absent, proficiency_level |-> Absent,
               proficiency |-> Absent, level |-> PyStr("basic")],
              [t |-> "dict", skill_name |-> Absent, name |-> Absent,
               skill_proficiency |-> PyStr("expert"), proficiency_level |-> Absent,
               proficiency |-> Absent, level |-> Absent],
              [t |-> "int", n |-> 7]>>)}

ProjectionVectors == {None, Some(<<4, 3>>)}
ProjectionQuery == <<5, 0>>

ProfileDocs ==
    [_id : {"p1"},
     user : {"u1"},
     personal_information : PersonalInformation,
     socials : Socials,
     skills : SkillsLists,
     experience : Experiences,
     education : {Absent},
     location : {Absent, PyStr("Paris")},
     embedding_vector : ProjectionVectors,
     embedding_model : {PyStr("text-embedding-3-large")},
     embedding_last_generated_at : {Absent}]

InitProject ==
    /\ kind = "candidate"
    /\ collection = <<>>
    /\ LifeIdle
    /\ NoSearch
    /\ NoRetryLoop
    /\ NoText
    /\ NoClient
    /\ profile_doc \in {Some(d) : d \in ProfileDocs}
    /\ vector_hit = None
    /\ manual_hit = None

\* The document comes out of the vector-search pipeline and is made a hit.
\* The index returns only documents that have a vector.
ProjectViaVectorSearch(candidate_scope) ==
    /\ vector_hit = None
    /\ Get(profile_doc).embedding_vector # None
    /\ vector_hit' = Some(VectorSearchHit(ProjectStage(ProjectionQuery, Get(profile_doc)),
                                          candidate_scope))
    /\ UNCHANGED <<profile_doc, manual_hit, replies, loop, source_doc, built_text,
                   clientVars, lifeVars, searchVars>>

\* The document comes out of the find by user id and is made a hit.
ProjectManually ==
    /\ manual_hit = None
    /\ manual_hit' = Some(ManualHit(ProjectionQuery, Get(profile_doc)))
    /\ UNCHANGED <<profile_doc, vector_hit, replies, loop, source_doc, built_text,
                   clientVars, lifeVars, searchVars>>

NextProject ==
    \/ \E candidate_scope \in Scopes : ProjectViaVectorSearch(candidate_scope)
    \/ ProjectManually

SpecProject == InitProject /\ [][NextProject]_vars

\* ================================================================ claims
Exists == collection # <<>>
Arg(p) == Get(job[p])
Other(p) == CHOOSE q \in Procs : q # p

\* The job passed to ensure_embedding is ready, has a non-empty vector and
\* job_embedding_last_generated_at >= updatedAt.
FreshArg(p) ==
    /\ job[p] # None
    /\ Arg(p).status = "ready"
    /\ Truthy(Arg(p).vector)
    /\ Arg(p).generated_at # None
    /\ Arg(p).updatedAt # None
    /\ Get(Arg(p).generated_at) >= Get(Arg(p).updatedAt)

\* The job passed to ensure_embedding has updatedAt later than
\* job_embedding_last_generated_at.
StaleArg(p) ==
    /\ job[p] # None
    /\ Arg(p).generated_at # None
    /\ Arg(p).updatedAt # None
    /\ Get(Arg(p).updatedAt) > Get(Arg(p).generated_at)

\* The call returned the vector it was handed, without a provider call.
CacheHit(p) ==
    /\ op[p] = "ensure"
    /\ job[p] # None
    /\ pc[p] = "done"
    /\ calls[p] = 0
    /\ outcome[p] = Returned(Arg(p).vector)

\* C1: ensure_embedding on a ready job with a non-empty vector and
\* generated_at >= updatedAt returns at once: no provider call, no write
\* (the collection still holds the document it was handed), and the value
\* returned is the stored vector.
C1_CacheHit ==
    \A p \in Procs :
        (op[p] = "ensure" /\ FreshArg(p)) =>
            /\ pc[p] = "done"
            /\ calls[p] = 0
            /\ writes[p] = 0
            /\ collection = job[p]
            /\ outcome[p] = Returned(Arg(p).vector)

C1_Witness ==
    \E p \in Procs :
        /\ op[p] = "ensure" /\ FreshArg(p) /\ pc[p] = "done"
        /\ Get(Arg(p).generated_at) = Get(Arg(p).updatedAt)

\* C2: a single ensure_embedding call (no other call in flight) on a job
\* whose updatedAt is later than its generated_at, against a provider that
\* gives no failing answer, calls the provider exactly once, and when it
\* returns the stored status is ready and the stored generated_at is not
\* earlier than the time the call started.
C2_Staleness ==
    \A p \in Solo :
        (op[p] = "ensure" /\ pc[p] = "done" /\ StaleArg(p) /\ failures[p] = 0) =>
            /\ calls[p] = 1
            /\ Exists
            /\ Doc.status = "ready"
            /\ Doc.generated_at # None
            /\ Get(Doc.generated_at) >= start[p]
            /\ outcome[p] = Returned(Doc.vector)

C2_Witness ==
    \E p \in Solo :
        /\ op[p] = "ensure" /\ pc[p] = "done" /\ StaleArg(p)
        /\ failures[p] = 0 /\ calls[p] = 1
        /\ Get(Doc.generated_at) > Get(Arg(p).generated_at)

\* C3: ensure_embedding returns the stored vector without regeneration only
\* for a job whose status is ready (and whose generated_at is not earlier
\* than updatedAt); a job in any other status is regenerated.
C3_CachedOnlyWhenReady ==
    \A p \in Procs :
        CacheHit(p) =>
            /\ Arg(p).status = "ready"
            /\ Arg(p).generated_at # None
            /\ (Arg(p).updatedAt # None =>
                    Get(Arg(p).generated_at) >= Get(Arg(p).updatedAt))

\* C4: the step that ends a failed generation stores status error with a
\* message, leaves vector, model and generated_at as they were, and hands
\* the same exception to the caller.
C4_FailureKeepsEmbedding ==
    [][\A p \in Procs :
          (pc[p] = "failed" /\ pc'[p] # "failed") =>
              /\ collection' # <<>>
              /\ collection'[1].status = "error"
              /\ collection'[1].error # None
              /\ collection'[1].vector = Doc.vector
              /\ collection'[1].model = Doc.model
              /\ collection'[1].generated_at = Doc.generated_at
              /\ pc'[p] = "done"
              /\ outcome'[p] = Raise(Get(Get(result[p]).exc))]_vars

\* A failed refresh has returned and the vector of an earlier generation is
\* still stored.
C4_Witness ==
    \E p \in Procs :
        /\ pc[p] = "done"
        /\ outcome[p] = Raise("ValueError")
        /\ Exists /\ Doc.status = "error" /\ Doc.vector # None

\* C5: whenever no call is in flight the stored status is not processing,
\* and at the return of a call that wrote, with no other call in flight,
\* it is ready or error.
C5_NeverLeftProcessing ==
    (Exists /\ \A q \in Procs : pc[q] \in {"idle", "done"}) =>
        /\ Doc.status # "processing"
        /\ (\E p \in Procs : pc[p] = "done" /\ writes[p] > 0) =>
               Doc.status \in {"ready", "error"}

\* Two refreshes of a stale candidate overlapped: the one returning now found
\* the status stale and stored generation 1 after the other call, which has
\* returned, had made generation 2.
C5_Witness ==
    \E p \in Procs :
        /\ kind = "candidate"
        /\ pc[p] = "done" /\ pc[Other(p)] = "idle"
        /\ seen[p] = "stale"
        /\ ncalls = 2 /\ ngen = 2
        /\ Doc.vector # None /\ Get(Doc.vector).id = 1

\* C6: every stored state is consistent: status ready has no error message,
\* and a stored vector comes with the model and the generated_at of the
\* generation that made the vector.
C6_ConsistentState ==
    Exists =>
        /\ (Doc.status = "ready" => Doc.error = None)
        /\ (Doc.vector # None =>
               /\ Doc.model # None /\ Doc.generated_at # None
               /\ Doc.model_of = Some(Get(Doc.vector).id)
               /\ Doc.generated_of = Some(Get(Doc.vector).id))

\* One call has stored its result and returned while another still holds a
\* result of its own to store.
C6_Witness ==
    \E p \in Procs :
        /\ pc[p] = "done" /\ writes[p] = 2
        /\ Doc.status = "ready"
        /\ pc[Other(p)] = "persist"

\* C7: status ready implies a stored vector of EMBEDDING_VECTOR_SIZE elements.
C7_ReadyHasFullVector ==
    (Exists /\ Doc.status = "ready") =>
        (Doc.vector # None /\ Get(Doc.vector).len = EMBEDDING_VECTOR_SIZE)

\* A candidate that was updated and then embedded.
C7_Witness ==
    /\ kind = "candidate" /\ Exists
    /\ Doc.status = "ready" /\ Doc.content > 0

\* C8 as claimed: every change of status is one of the six transitions.
ClaimedTransitions ==
    {<<"pending", "processing">>, <<"stale", "processing">>,
     <<"error", "processing">>, <<"processing", "ready">>,
     <<"processing", "error">>, <<"ready", "stale">>}

C8_ClaimedTransitions ==
    [][(Exists /\ collection' # <<>> /\ collection'[1].status # Doc.status) =>
          <<Doc.status, collection'[1].status>> \in ClaimedTransitions]_vars

\* C8 as amended: a status changes only by one of three writes.  The first
\* write of refresh_embedding sets processing, from any status; update_profile
\* with an embedding-sensitive field sets stale, from any status; the last
\* write of a refresh_embedding call that has set processing sets ready or
\* error.  No write sets pending.
C8_Transitions ==
    [][(Exists /\ collection' # <<>> /\ collection'[1].status # Doc.status) =>
          \/ /\ collection'[1].status = "processing"
             /\ \E p \in Procs : pc[p] = "set_processing" /\ pc'[p] = "generate"
          \/ /\ collection'[1].status = "stale"
             /\ kind = "candidate" /\ pc' = pc
             /\ collection'[1].content = Doc.content + 1
          \/ /\ collection'[1].status = "ready"
             /\ \E p \in Procs : pc[p] = "persist" /\ pc'[p] # "persist"
                                  /\ writes[p] = 1
          \/ /\ collection'[1].status = "error"
             /\ \E p \in Procs : pc[p] = "failed" /\ pc'[p] = "done"
                                  /\ writes[p] = 1]_vars

\* update_profile has marked stale a candidate whose refresh is in flight.
C8_Witness ==
    /\ kind = "candidate" /\ Exists /\ Doc.status = "stale"
    /\ \E p \in Procs : pc[p] = "persist"
\* The applications the request fetched, and those with a ranked hit.
Fetched == SelectSeq(applications, LAMBDA a : a.currentStatus = "Applied")
HasHit(a) ==
    \E i \in 1..Len(ranked_hits) : ranked_hits[i].user_id = Str(a.candidateId)
Unmatched == {i \in 1..Len(Fetched) : ~HasHit(Fetched[i])}

\* C9 as claimed: in the sorted list a hit with the greater score comes
\* first, for all scores including 0.0 and negative ones.
C9_SortedByScore ==
    \A i, j \in 1..Len(results) :
        Get(results[i].similarity_score) > Get(results[j].similarity_score)
            => i < j

\* C10: with N applications fetched of which M have a candidate with no
\* ranked hit, the merged list has N - M entries, one for each application
\* that has a hit, and pagination.total_matches is N.
C10_MergeCompleteness ==
    response # None =>
        /\ Len(results) = Len(Fetched) - Cardinality(Unmatched)
        /\ Get(response).pagination.total_matches = Len(Fetched)
        /\ \A i \in 1..Len(Fetched) :
               HasHit(Fetched[i]) =>
                   Cardinality({k \in 1..Len(results) :
                       results[k].application = Fetched[i]._id}) = 1

\* Two applications fetched, one of them without a ranked hit.
C10_Witness ==
    /\ response # None
    /\ Len(Fetched) = 2
    /\ Cardinality(Unmatched) = 1
    /\ Len(results) = 1

\* The Python slice list[lo:hi] for 0 <= lo <= hi, element by element.
Slice(list, lo, hi) ==
    LET top == IF hi < Len(list) THEN hi ELSE Len(list)
        n == IF top > lo THEN top - lo ELSE 0
    IN  [k \in 1..n |-> list[lo + k]]

RECURSIVE PagesUpTo(_, _, _)
PagesUpTo(list, size, p) ==
    IF p = 0 THEN <<>>
    ELSE PagesUpTo(list, size, p - 1) \o Paginate(list, p, size)

\* C11: the results of a response are the slice [(p-1)*s : (p-1)*s + s] of
\* the sorted list, empty when (p-1)*s is not below its length, and for each
\* page size the pages 1, 2, ... put end to end are the sorted list.
C11_Pagination ==
    response # None =>
        LET p == Get(request).page
            s == Get(request).count
        IN  /\ Get(response).results = Slice(results, (p - 1) * s, (p - 1) * s + s)
            /\ ((p - 1) * s >= Len(results) => Get(response).results = <<>>)
            /\ \A size \in Counts :
                   PagesUpTo(results, size, Len(results) + 1) = results

\* The second page of size one of a list of two.
C11_Witness ==
    /\ response # None
    /\ Len(results) = 2
    /\ Get(request) = [page |-> 2, count |-> 1]
    /\ Get(response).results = <<results[2]>>

\* The request ran the manual routine, which returned.
ManualDone == request = Some([strategy |-> "manual"]) /\ raised = None

\* The collection holds a profile of the user that has an embedding.
HasEmbeddedProfile(id) ==
    \E i \in 1..Len(userprofiles) :
        /\ userprofiles[i].user = id
        /\ userprofiles[i].embedding_vector # None

\* C12 as claimed: the hits of the manual routine include one for every
\* requested id that has a profile with an embedding.
C12_ManualComplete ==
    ManualDone =>
        \A k \in 1..Len(candidate_ids) :
            HasEmbeddedProfile(candidate_ids[k]) =>
                \E i \in 1..Len(ranked_hits) :
                    ranked_hits[i].user_id = candidate_ids[k]

\* embedding_vector is missing, empty or all zero.
Degenerate(doc) ==
    \/ doc.embedding_vector = None
    \/ \A k \in 1..Len(Get(doc.embedding_vector)) : Get(doc.embedding_vector)[k] = 0

AllZero(v) == \A k \in 1..Len(v) : v[k] = 0

Scalars == {2, 3}
ScaleVec(v, c) == [k \in 1..Len(v) |-> c * v[k]]
ScaleDoc(doc, c) ==
    [doc EXCEPT !.embedding_vector = Some(ScaleVec(Get(doc.embedding_vector), c))]
Distance(a, b) == IF a < b THEN b - a ELSE a - b

\* The hits of the manual routine whose score is a cosine: the profile has a
\* vector that is not all zero, and neither is the query.
Cosines ==
    IF request = Some([strategy |-> "manual"]) /\ raised = None /\ ~AllZero(jd_embedding)
    THEN {i \in 1..Len(ranked_hits) : ~Degenerate(userprofiles[i])}
    ELSE {}

\* Four roundings, each off by at most half a unit in the last place.
Tolerance == (4 * Unit) \div Precision

FetchedDocuments == FetchProfiles(ObjectIds(candidate_ids))

\* C15 as claimed: no ranking pass fails, and the manual pass returns a hit
\* for every fetched record whose score can be computed, whatever the other
\* records of the pass are.
C15_PartialResults ==
    request # None =>
        /\ raised = None
        /\ (request = Some([strategy |-> "manual"]) =>
               \A i \in 1..Len(FetchedDocuments) :
                   ~DotRaises(jd_embedding, FetchedDocuments[i]) =>
                       \E k \in 1..Len(ranked_hits) :
                           ranked_hits[k].candidate_id = FetchedDocuments[i]._id)

\* C16: a search whose job id is malformed or matches no job ends with
\* NotFoundError before any provider call or store write; the route answers
\* 404 for NotFoundError only, and 500 for every other exception.
C16_NotFound ==
    \A p \in Procs :
        (op[p] = "ensure" /\ pc[p] = "done") =>
            /\ (~ValidObjectId(Get(job_id[p])) \/ collection = <<>>) =>
                   /\ outcome[p] = Raise("NotFoundError")
                   /\ calls[p] = 0
                   /\ writes[p] = 0
                   /\ HttpStatus(outcome[p]) = 404
            /\ (HttpStatus(outcome[p]) = 404 <=> outcome[p] = Raise("NotFoundError"))
            /\ (Get(outcome[p]).type = "raise" /\ outcome[p] # Raise("NotFoundError")) =>
                   HttpStatus(outcome[p]) = 500

\* A search with a malformed job id, of a job that is stored, has ended.
C16_Witness ==
    \E p \in Procs :
        /\ op[p] = "ensure" /\ pc[p] = "done"
        /\ job_id[p] = Some(InvalidId)
        /\ collection # <<>>
        /\ HttpStatus(outcome[p]) = 404

\* The company the claim gives a hit that has a current title: that of the
\* entry with the title, else that of the first entry, else "Unknown Company".
ClaimedCompany(profile) ==
    LET at == {k \in 1..Len(profile.experience) :
                  profile.experience[k].job_title = profile.current_job_title}
        named == {k \in at : profile.experience[k].company_name # None}
    IN  IF named # {}
        THEN Get(profile.experience[CHOOSE k \in named : \A j \in named : k <= j].company_name)
        ELSE IF profile.experience # <<>> /\ profile.experience[1].company_name # None
        THEN Get(profile.experience[1].company_name)
        ELSE "Unknown Company"

\* C17 as claimed: job_status is "Fresher" exactly when the candidate has no
\* current job title, and "<title> at <company>" otherwise.
C17_JobStatus ==
    \A k \in 1..Len(results) :
        LET profile == Get(ProfileMapGet(ranked_hits, results[k].candidateId))
        IN  IF profile.current_job_title = None
            THEN results[k].job_status = <<"Fresher">>
            ELSE results[k].job_status =
                     <<Get(profile.current_job_title), " at ", ClaimedCompany(profile)>>

\* ----------------------------------------------------------------- C18
Transient(k) == replies[k] = OpenAIError

\* The sleeps before the 2nd, ..., n-th call: retry_delay_seconds * k before
\* call k + 1.
Backoff(n) == [k \in 1..(n - 1) |-> retry_delay_seconds * k]

\* C18: the retry loop ends after at most max_retries provider calls, and
\* after exactly max_retries with EmbeddingServiceError when every call fails
\* transiently; it sleeps retry_delay_seconds * k before call k + 1; every call
\* but the last one failed transiently, so an answer that is not a list or has
\* the wrong length is never retried (one provider call when it is the first
\* answer) and raises; a vector of the configured size is returned.
C18_RetryLoop ==
    loop # None =>
        LET r == Get(loop)
            last == replies[r.calls]
        IN  /\ r.calls \in 1..max_retries
            /\ (\A k \in 1..max_retries : Transient(k)) =>
                   /\ r.calls = max_retries
                   /\ r.exc = Some("EmbeddingServiceError")
            /\ r.slept = Backoff(r.calls)
            /\ \A k \in 1..(r.calls - 1) : Transient(k)
            /\ ~Transient(1) => r.calls = 1
            /\ last = NotAList => r.exc = Some("EmbeddingServiceError")
            /\ (last.kind = "list" /\ Get(last.embedding) \in BadLengths) =>
                   r.exc = Some("ValueError")
            /\ last = List(EMBEDDING_VECTOR_SIZE) =>
                   r.exc = None /\ r.vector = Some(EMBEDDING_VECTOR_SIZE)
            /\ Transient(r.calls) => r.calls = max_retries

\* Every call failed transiently: max_retries calls were made, with sleeps of
\* retry_delay_seconds and 2 * retry_delay_seconds between them.
C18_Witness ==
    /\ loop # None
    /\ \A k \in 1..max_retries : Transient(k)
    /\ Get(loop).calls = max_retries
    /\ Get(loop).slept = <<retry_delay_seconds, 2 * retry_delay_seconds>>
    /\ Get(loop).exc = Some("EmbeddingServiceError")

\* ----------------------------------------------------------------- C19
\* C19: when a search request has its query vector, the cache_hit flag it
\* reports is true exactly when ensure_embedding made no provider call for
\* it, whatever vector, generated_at and updatedAt the job was stored with.
C19_CacheHitFlag ==
    \A p \in Procs :
        (pc[p] = "done" /\ op[p] = "ensure" /\ Get(outcome[p]).type = "return") =>
            (Metadata(Arg(p)).cache_hit <=> calls[p] = 0)

\* ----------------------------------------------------------------- C20
Min(a, b) == IF a < b THEN a ELSE b

\* C20: a vector-search ranking called with a non-empty candidate id list and
\* limit L asks the index for min(3 * L, 500) results, returns at most L
\* hits, and every hit's user id is one of the requested ids.
C20_PostFilter ==
    (request # None /\ Get(request).strategy = "vector" /\ candidate_ids # <<>>) =>
        LET L == Get(request).limit
            requested == {candidate_ids[i] : i \in 1..Len(candidate_ids)}
        IN  /\ Get(request).vector_search_limit = Min(3 * L, 500)
            /\ Len(ranked_hits) <= L
            /\ \A i \in 1..Len(ranked_hits) : ranked_hits[i].user_id \in requested

\* ----------------------------------------------------------------- C21
\* The fields of a job document that are not embedding fields.
OtherFields(d) == [updatedAt |-> d.updatedAt, content |-> d.content]

\* The embedding fields only _persist_embedding writes.
PersistedFields(d) ==
    [vector |-> d.vector, model |-> d.model, dimensions |-> d.dimensions,
     generated_at |-> d.generated_at]

\* C21: no step of a search request changes the applications or the user
\* profiles; a step that changes the job document changes embedding fields
\* only, and vector, model, dimensions and generated_at only in the
\* persistence step after a successful generation; a request served from
\* the cached vector has written nothing when it responds.
C21_SearchWrites ==
    [][/\ applications' = applications
       /\ userprofiles' = userprofiles
       /\ Len(collection') = Len(collection)
       /\ OtherFields(collection'[1]) = OtherFields(Doc)
       /\ \A p \in Solo :
              /\ pc[p] # "persist" =>
                     PersistedFields(collection'[1]) = PersistedFields(Doc)
              /\ (pc'[p] = "done" /\ op'[p] = "ensure" /\ calls'[p] = 0
                      /\ Get(outcome'[p]).type = "return") =>
                     /\ writes'[p] = 0
                     /\ collection' = collection
                     /\ collection' = job'[p]]_vars

\* A request that regenerated the job's embedding (two writes to the job)
\* has answered with a ranked applicant.
C21_Witness ==
    \E p \in Solo :
        /\ pc[p] = "done" /\ op[p] = "ensure"
        /\ writes[p] = 2
        /\ response # None
        /\ results # <<>>
        /\ applications # <<>> /\ userprofiles # <<>>

\* ----------------------------------------------------------------- C22
Max(a, b) == IF a > b THEN a ELSE b

\* The count the claim gives: max(1, min(count, MAX_GLOBAL_LIMIT)), a missing
\* or zero count replaced by DEFAULT_GLOBAL_LIMIT.
ClaimedRequested(count) ==
    Max(1, Min(IF count = None \/ Get(count) = 0
               THEN DEFAULT_GLOBAL_LIMIT ELSE Get(count),
               MAX_GLOBAL_LIMIT))

\* C22: search_global returns at most requested_count hits, requested_count
\* being the clamped count; the index is asked for exactly that many results
\* and nothing is filtered by candidate id, so the hits are the best
\* requested_count documents of the index; the response reports the limit
\* that was used.
C22_GlobalCount ==
    (request # None /\ Get(request).strategy = "global") =>
        LET r == Get(request)
            requested == ClaimedRequested(r.count)
            best == Take(ByScore(jd_embedding, Indexed(jd_embedding)), requested)
        IN  /\ Get(response).requested_count = requested
            /\ r.limit = requested
            /\ r.vector_search_limit = requested
            /\ r.object_ids = <<>>
            /\ Len(ranked_hits) <= requested
            /\ Get(response).results = ranked_hits
            /\ Len(ranked_hits) = Len(best)
            /\ \A i \in 1..Len(best) : ranked_hits[i].candidate_id = best[i]._id

\* A count of one cut the index's answer of several documents to one hit.
C22_Witness ==
    /\ request # None
    /\ Get(request).strategy = "global"
    /\ Get(request).count = Some(1)
    /\ Len(Indexed(jd_embedding)) > 1
    /\ Len(ranked_hits) = 1

\* ----------------------------------------------------------------- C23
\* A step of update_profile: a candidate step that moves no caller and no
\* clock and creates no profile.
UpdateStep ==
    /\ kind = "candidate"
    /\ pc' = pc
    /\ now' = now
    /\ Len(collection') = Len(collection)

\* The update wrote an embedding-sensitive field: the content of the profile
\* is no longer what it was.
Touched == collection'[1].content # Doc.content

\* C23: update_profile with the id of the stored candidate and an
\* embedding-sensitive field sets status stale and clears vector,
\* generated_at and error; with no embedding-sensitive field it leaves
\* status, vector, model and generated_at alone; with an id that matches no
\* document (there is none, or the id is malformed) it raises NotFoundError
\* and changes no document.
C23_UpdateProfile ==
    [][UpdateStep =>
          IF Get(updated') = "ok"
          THEN /\ Exists
               /\ Touched =>
                      /\ collection'[1].status = "stale"
                      /\ collection'[1].vector = None
                      /\ collection'[1].generated_at = None
                      /\ collection'[1].error = None
               /\ ~Touched =>
                      /\ collection'[1].status = Doc.status
                      /\ collection'[1].vector = Doc.vector
                      /\ collection'[1].model = Doc.model
                      /\ collection'[1].generated_at = Doc.generated_at
          ELSE /\ Get(updated') = "NotFoundError"
               /\ collection' = collection]_vars

\* ----------------------------------------------------------------- C24
\* A field's text, its placeholder when the field is missing or empty.
Shown(value, placeholder) ==
    IF Falsy(value) THEN <<placeholder>>
    ELSE IF value.t = "list" THEN Join(Texts(value.items), <<", ">>)
    ELSE Text(value)

\* The locations' text, the placeholder when no entry has any text.
ShownLocations(value) ==
    IF Falsy(value) THEN <<"Locations not provided">>
    ELSE IF value.t = "list"
    THEN (IF LocationTexts(value.items) = <<>>
          THEN <<"Locations not provided">>
          ELSE Join(LocationTexts(value.items), <<", ">>))
    ELSE Text(value)

\* The text the claim describes: the eight segments in their order, each
\* missing or empty field as its placeholder.
ClaimedText(doc) ==
    Join(<<Shown(doc.title, "Untitled role"),
           Shown(PyOr(doc.employmentType, doc.employment_type), "Type n/a"),
           Shown(PyOr(doc.workModel, doc.work_model), "Work model n/a"),
           Shown(IF Falsy(doc.experienceRange) THEN Absent
                 ELSE doc.experienceRange.summary, "Experience range n/a"),
           <<"Skills:", " ">>
               \o Shown(PyOr(doc.skillsRequired, doc.skills), "Skills not provided"),
           <<"Industry:", " ">>
               \o Shown(PyOr(doc.industry, doc.industries), "Industry n/a"),
           <<"Locations:", " ">>
               \o ShownLocations(PyOr(doc.locations, doc.location)),
           <<"Description:", " ">>
               \o Shown(doc.description, "Description not provided")>>,
         <<" | ">>)

\* C24: the text built for a job is the eight segments title, employment
\* type, work model, experience range, Skills, Industry, Locations and
\* Description in this order, every missing or empty field (an absent or
\* empty industry list included) rendered as its placeholder.
C24_JobText ==
    built_text # None => Get(built_text) = ClaimedText(Get(source_doc))

\* ----------------------------------------------------------------- C25
\* C25: whatever the interleaving of the worker threads, the AzureOpenAI
\* client is constructed at most once and every call returns that instance.
C25_OneClient ==
    /\ constructed <= 1
    /\ \A t, u \in Threads :
           (client[t] # None /\ client[u] # None) => client[t] = client[u]

\* ----------------------------------------------------------------- C26
\* C26: whenever a candidate is ready with generated_at >= updatedAt, its
\* stored vector was generated from the embedding-sensitive field values the
\* profile has now, not from values read before an update.
C26_FreshContent ==
    (kind = "candidate" /\ Exists /\ Doc.status = "ready"
         /\ Doc.vector # None /\ Doc.generated_at # None
         /\ Doc.updatedAt # None
         /\ Get(Doc.generated_at) >= Get(Doc.updatedAt)) =>
        Get(Doc.vector).of = Doc.content

\* ----------------------------------------------------------------- C27
\* C27: the embedding_model a search reports is the model tag of the query
\* vector it ranked with: the stored model on a cache hit, and the model the
\* request's own generation persisted when it regenerated (the first
\* generation for a job that had no embedding included).
C27_ModelOfVector ==
    \A p \in Solo :
        (pc[p] = "done" /\ op[p] = "ensure" /\ Get(outcome[p]).type = "return") =>
            /\ Metadata(Arg(p)).model = Doc.model
            /\ calls[p] > 0 =>
                   Metadata(Arg(p)).model = Some(AZURE_OPENAI_EMBEDDING_DEPLOYMENT)

\* ----------------------------------------------------------------- C28
\* C28: the hit list the manual scoring routine returns is in descending
\* order of similarity score, whatever the order in which the store returned
\* the profiles.
C28_ManualSorted ==
    ManualDone =>
        \A i, j \in 1..Len(ranked_hits) :
            i < j => Get(ranked_hits[i].similarity_score)
                         >= Get(ranked_hits[j].similarity_score)

\* ----------------------------------------------------------------- C29
\* The generation of caller p ended in _validate_vector's ValueError.
WrongLength(p) ==
    /\ pc[p] = "failed"
    /\ Get(result[p]).exc = Some("ValueError")

\* C29: when the provider's vector has the wrong length the refresh writes
\* status error with a message, leaves vector, model and generated_at as
\* they were, and raises; the search that asked for the vector ends with
\* that exception: a response is made only by a request whose
\* ensure_embedding returned a vector, and that vector has the configured
\* length.
C29_WrongLength ==
    [][\A p \in Solo :
          /\ (WrongLength(p) /\ pc'[p] # "failed") =>
                 /\ collection'[1].status = "error"
                 /\ collection'[1].error # None
                 /\ collection'[1].vector = Doc.vector
                 /\ collection'[1].model = Doc.model
                 /\ collection'[1].generated_at = Doc.generated_at
                 /\ pc'[p] = "done"
                 /\ outcome'[p] = Raise("ValueError")
                 /\ HttpStatus(outcome'[p]) = 500
                 /\ UNCHANGED <<request, response, ranked_hits, results>>
          /\ (pc[p] = "done" /\ Get(outcome[p]).type = "raise") =>
                 UNCHANGED <<request, response, ranked_hits, results>>
          /\ response' # response =>
                 /\ pc[p] = "done"
                 /\ Get(outcome[p]).type = "return"
                 /\ Get(Get(outcome[p]).value).len = EMBEDDING_VECTOR_SIZE]_vars

\* A search of a job with a stored vector has ended in ValueError: the
\* stored vector is still there, the status is error and no response was
\* made.
C29_Witness ==
    \E p \in Solo :
        /\ pc[p] = "done" /\ op[p] = "ensure"
        /\ outcome[p] = Raise("ValueError")
        /\ Doc.status = "error" /\ Doc.error # None
        /\ Doc.vector # None
        /\ applications # <<>> /\ userprofiles # <<>>
        /\ response = None

\* ----------------------------------------------------------------- C30
\* The first experience entry of a document, when the projection looks at one,
\* and its end date under either name; a date is absent when the entry has
\* none or an empty one.
HasFirstEntry(doc) ==
    /\ doc.experience.t = "list"
    /\ doc.experience.items # <<>>
    /\ doc.experience.items[1].t = "dict"

FirstEndDate(doc) ==
    LET e == doc.experience.items[1]
    IN  IF e.end_date = Absent \/ e.end_date = PyStr("") THEN e.endDate ELSE e.end_date

ClaimedStatus(doc) ==
    IF \/ FirstEndDate(doc) = Absent
       \/ FirstEndDate(doc) = PyStr("")
       \/ FirstEndDate(doc).t = "str" /\ Lower(FirstEndDate(doc).s) = "present"
    THEN PyStr("Currently Working")
    ELSE PyStr("Open to Opportunities")

ProfileFields ==
    {"full_name", "current_job_title", "employment_status", "location",
     "contact_info", "skills", "experience"}

\* C30: for one candidate document the hit built by the vector-search routine
\* and the hit built by the manual routine agree on full_name,
\* current_job_title, employment_status, location, contact_info, skills and
\* experience, and on every other field except similarity_score and source;
\* employment_status is "Currently Working" when the first experience entry's
\* end date is absent or "present" in any case, "Open to Opportunities"
\* otherwise.
C30_SameProjection ==
    /\ (vector_hit # None /\ manual_hit # None) =>
           /\ \A f \in ProfileFields : Get(vector_hit)[f] = Get(manual_hit)[f]
           /\ \A f \in DOMAIN Get(manual_hit) \ {"similarity_score", "source"} :
                  Get(vector_hit)[f] = Get(manual_hit)[f]
    /\ (manual_hit # None /\ HasFirstEntry(Get(profile_doc))) =>
           Get(manual_hit).employment_status = ClaimedStatus(Get(profile_doc))
    /\ (vector_hit # None /\ HasFirstEntry(Get(profile_doc))) =>
           Get(vector_hit).employment_status = ClaimedStatus(Get(profile_doc))

C30_Witness ==
    /\ vector_hit # None
    /\ manual_hit # None
    /\ Get(vector_hit).source = "global"
    /\ Get(manual_hit).source = "applied"
    /\ Get(manual_hit).employment_status = PyStr("Currently Working")
    /\ Get(profile_doc).experience.t = "list"
    /\ Len(Get(profile_doc).experience.items) = 2
    /\ Get(profile_doc).experience.items[1].endDate = PyStr("PRESENT")
    /\ Get(profile_doc).experience.items[1].end_date = Absent
    /\ Get(manual_hit).contact_info.github = PyStr("gh/ada")
    /\ Len(Get(manual_hit).skills) = 3
    /\ Get(manual_hit).full_name = PyText(<<"Ada", " ", "Lovelace">>)
====
